---- MODULE Spec2Model ----
(***************************************************************************)
(* A model of the binned PID-efficiency core of pidcalib2:                 *)
(*   binning.py   the binning registry                                     *)
(*   utils.py     make_hist, create_eff_histograms, binomial_uncertainty,  *)
(*                create_error_histogram, add_bin_indices, add_efficiencies*)
(*   pid_data.py  get_reference_branch_name                                *)
(*                                                                         *)
(* Numbers.  The program computes in IEEE binary64.  The model computes in *)
(* exact rationals extended with the IEEE special values NaN, +inf, -inf   *)
(* (rounding is abstracted, the special values and their propagation are   *)
(* kept).  A square root is kept symbolically as c * sqrt(r).  Zeros are   *)
(* +0: a histogram cell starts at +0.0 and x + (-x) rounds to +0.0.        *)
(* Axis values and edges are integers; P-like quantities are written in    *)
(* tenths (edges 0, 100, 200, 300 stand for 0, 10, 20, 30 and the value    *)
(* 301 for 30.1).                                                          *)
(***************************************************************************)
EXTENDS Integers, Sequences, FiniteSets, TLC

VARIABLES
    pc,         \* position of the modelled run
    binnings,   \* binning.py: the module-level dict `binnings`
    df_cal,     \* calibration DataFrame handed to make_hist
    hists,      \* dict name -> histogram built from the calibration data
    err_hist,   \* result of create_error_histogram, or NoHist
    eff_hists,  \* dict prefix -> the five histograms loaded for the prefix
    df_ref,     \* reference DataFrame (input of add_bin_indices)
    df_idx,     \* DataFrame returned by add_bin_indices
    df_eff,     \* DataFrame returned by add_efficiencies
    raised,     \* exception raised by the last call, "" when none
    call,       \* arguments of the calls made so far
    ret,        \* value returned by the last call of the registry and file runs
    files,      \* the files on disk: name -> content
    log,        \* what the last call reported through the logger
    ncalls      \* number of calls made in the registry run

vars == <<pc, binnings, df_cal, hists, err_hist, eff_hists, df_ref, df_idx,
          df_eff, raised, call, ret, files, log, ncalls>>

\* the variables of the registry run, of the file run and of the logger
ioVars == <<ret, files, log, ncalls>>

----------------------------------------------------------------------------
(* Extended rational arithmetic (numpy float64 semantics without rounding) *)

AbsInt(i) == IF i < 0 THEN -i ELSE i

SignInt(i) == IF i < 0 THEN -1 ELSE IF i = 0 THEN 0 ELSE 1

RECURSIVE GCD(_, _)
GCD(a, b) == IF b = 0 THEN a ELSE GCD(b, a % b)

\* the finite value n/d in lowest terms, d > 0
Fin(n, d) ==
    LET g == GCD(AbsInt(n), AbsInt(d))
        s == IF d < 0 THEN -1 ELSE 1
    IN  [k |-> "fin", n |-> (s * n) \div g, d |-> (s * d) \div g]

FromInt(i) == [k |-> "fin", n |-> i, d |-> 1]

NaN == [k |-> "nan", n |-> 0, d |-> 1]

Inf(s) == [k |-> "inf", n |-> s, d |-> 1]

Zero == FromInt(0)

One == FromInt(1)

IsNaN(x) == x.k = "nan"

IsFin(x) == x.k = "fin"

IsZero(x) == x.k = "fin" /\ x.n = 0

\* sign of a non-NaN value; a zero counts as +0
SignX(x) == IF x.n < 0 THEN -1 ELSE 1

XNeg(x) == IF x.k = "nan" THEN NaN ELSE [x EXCEPT !.n = -x.n]

XAbs(x) == IF x.k = "nan" THEN NaN ELSE [x EXCEPT !.n = AbsInt(x.n)]

XAdd(a, b) ==
    IF a.k = "nan" \/ b.k = "nan" THEN NaN
    ELSE IF a.k = "inf" /\ b.k = "inf" THEN (IF a.n = b.n THEN a ELSE NaN)
    ELSE IF a.k = "inf" THEN a
    ELSE IF b.k = "inf" THEN b
    ELSE Fin(a.n * b.d + b.n * a.d, a.d * b.d)

XSub(a, b) == XAdd(a, XNeg(b))

XMul(a, b) ==
    IF a.k = "nan" \/ b.k = "nan" THEN NaN
    ELSE IF a.k = "inf" \/ b.k = "inf"
         THEN (IF IsZero(a) \/ IsZero(b) THEN NaN ELSE Inf(SignX(a) * SignX(b)))
    ELSE Fin(a.n * b.n, a.d * b.d)

XDiv(a, b) ==
    IF a.k = "nan" \/ b.k = "nan" THEN NaN
    ELSE IF a.k = "inf" THEN (IF b.k = "inf" THEN NaN ELSE Inf(SignX(a) * SignX(b)))
    ELSE IF b.k = "inf" THEN Zero
    ELSE IF b.n = 0 THEN (IF a.n = 0 THEN NaN ELSE Inf(SignX(a)))
    ELSE Fin(a.n * b.d, a.d * b.n)

XSq(x) == XMul(x, x)

\* a <= b for finite values
XLe(a, b) == a.n * b.d <= b.n * a.d

\* c * sqrt(r) for finite c and finite r >= 0
MkSurd(c, r) ==
    IF c.n = 0 \/ r.n = 0 THEN [k |-> "surd", c |-> Zero, r |-> Zero]
    ELSE [k |-> "surd", c |-> c, r |-> r]

\* np.sqrt
XSqrt(x) ==
    IF x.k = "nan" THEN NaN
    ELSE IF x.n < 0 THEN NaN
    ELSE IF x.k = "inf" THEN Inf(1)
    ELSE MkSurd(One, x)

SurdIsZero(s) == s.k = "surd" /\ s.c.n = 0

\* s * x for a square-root value s and a rational x
SurdMulX(s, x) ==
    IF s.k = "nan" \/ x.k = "nan" THEN NaN
    ELSE IF s.k = "inf"
         THEN (IF IsZero(x) THEN NaN ELSE Inf(s.n * SignX(x)))
    ELSE IF x.k = "inf"
         THEN (IF SurdIsZero(s) THEN NaN ELSE Inf(SignX(s.c) * x.n))
    ELSE MkSurd(XMul(s.c, x), s.r)

\* s / x for a square-root value s and a rational x
SurdDivX(s, x) ==
    IF s.k = "nan" \/ x.k = "nan" THEN NaN
    ELSE IF s.k = "inf"
         THEN (IF x.k = "inf" THEN NaN ELSE Inf(s.n * SignX(x)))
    ELSE IF x.k = "inf" THEN MkSurd(Zero, Zero)
    ELSE IF x.n = 0
         THEN (IF SurdIsZero(s) THEN NaN ELSE Inf(SignX(s.c)))
    ELSE MkSurd(XDiv(s.c, x), s.r)

\* s ** 2, a rational again
SurdSq(s) ==
    IF s.k = "nan" THEN NaN
    ELSE IF s.k = "inf" THEN Inf(1)
    ELSE XMul(XSq(s.c), s.r)

----------------------------------------------------------------------------
(* binning.py *)

\* A particle name is the sequence of its "_"-separated parts:
\* <<"K">> is "K", <<"K", "DsPhi">> is "K_DsPhi".
ModelBinnings ==
    [p \in {<<"K">>, <<"Pi">>} |->
        IF p = <<"K">>
        THEN [v \in {"P", "nTracks"} |->
                IF v = "P" THEN <<0, 100, 200, 300>> ELSE <<0, 30, 200>>]
        ELSE [v \in {"P", "nTracks"} |->
                IF v = "P" THEN <<0, 150, 300>> ELSE <<0, 50, 200>>]]

NoEdges == <<>>

\* faulty variant of get_binning: no fallback to the particle without suffix
get_binning_NoFallback(reg, particle, variable) ==
    IF particle \in DOMAIN reg /\ variable \in DOMAIN reg[particle]
    THEN [ok |-> TRUE, edges |-> reg[particle][variable]]
    ELSE [ok |-> FALSE, edges |-> NoEdges]

\* get_binning: the stored edges, else those of the particle without its
\* suffix, else KeyError (ok = FALSE)
get_binning(reg, particle, variable) ==
    IF particle \in DOMAIN reg /\ variable \in DOMAIN reg[particle]
    THEN [ok |-> TRUE, edges |-> reg[particle][variable]]
    ELSE LET pure_particle == <<Head(particle)>>
         IN  IF pure_particle \notin DOMAIN reg
                \/ variable \notin DOMAIN reg[pure_particle]
             THEN [ok |-> FALSE, edges |-> NoEdges]
             ELSE [ok |-> TRUE, edges |-> reg[pure_particle][variable]]

\* A Python value handed over as bin_edges is [kind, items]: kind "list"
\* with the items of the list, or another kind (a number) which is no list.

\* faulty variant of set_binning: the new edges are appended to the stored ones
set_binning_Merging(reg, particle, variable, bin_edges) ==
    IF bin_edges.kind # "list" THEN [raised |-> "TypeError", reg |-> reg]
    ELSE [raised |-> "",
          reg |-> [q \in DOMAIN reg \cup {particle} |->
                     IF q # particle THEN reg[q]
                     ELSE LET old == IF q \in DOMAIN reg THEN reg[q] ELSE <<>>
                          IN  [w \in DOMAIN old \cup {variable} |->
                                 IF w # variable THEN old[w]
                                 ELSE IF w \in DOMAIN old THEN old[w] \o bin_edges.items
                                 ELSE bin_edges.items]]]

\* set_binning: TypeError for a value that is no list, else the entry of
\* (particle, variable) becomes the list; the result is the exception
\* raised ("" when none) and the registry afterwards
set_binning(reg, particle, variable, bin_edges) ==
    IF bin_edges.kind # "list" THEN [raised |-> "TypeError", reg |-> reg]
    ELSE [raised |-> "",
          reg |-> [q \in DOMAIN reg \cup {particle} |->
                     IF q # particle THEN reg[q]
                     ELSE LET old == IF q \in DOMAIN reg THEN reg[q] ELSE <<>>
                          IN  [w \in DOMAIN old \cup {variable} |->
                                 IF w = variable THEN bin_edges.items ELSE old[w]]]]

RECURSIVE load_binnings(_, _)
\* load_binnings: set_binning for every entry [particle, variable, binning]
\* of the parsed file, in file order; an exception ends the loop
load_binnings(reg, new_binnings) ==
    IF new_binnings = <<>> THEN [raised |-> "", reg |-> reg]
    ELSE LET e == Head(new_binnings)
             r == set_binning(reg, e.particle, e.variable, e.binning)
         IN  IF r.raised # "" THEN r
             ELSE load_binnings(r.reg, Tail(new_binnings))

RECURSIVE DictItems(_)
\* the entries of the parsed file in the order a dict of dicts is iterated:
\* particles in the order of their first entry, then their variables
DictItems(entries) ==
    IF entries = <<>> THEN <<>>
    ELSE LET p == Head(entries).particle
         IN  SelectSeq(entries, LAMBDA e : e.particle = p)
                \o DictItems(SelectSeq(entries, LAMBDA e : e.particle # p))

RECURSIVE CheckBinVarsLoop(_, _, _, _, _)
\* the loop of lines 230-235: get_binning for every bin variable (KeyError
\* ends the call), and the entry custom_binnings[particle][bin_var], when
\* there is one, is labelled "used"
CheckBinVarsLoop(reg, particle, bin_vars, custom_binnings, used) ==
    IF bin_vars = <<>> THEN [raised |-> "", used |-> used]
    ELSE LET bin_var == Head(bin_vars)
             bin_edges == get_binning(reg, particle, bin_var)
         IN  IF ~bin_edges.ok THEN [raised |-> "KeyError", used |-> used]
             ELSE CheckBinVarsLoop(
                     reg, particle, Tail(bin_vars), custom_binnings,
                     IF \E i \in 1..Len(custom_binnings) :
                           /\ custom_binnings[i].particle = particle
                           /\ custom_binnings[i].variable = bin_var
                     THEN used \cup {<<particle, bin_var>>}
                     ELSE used)

\* check_and_load_binnings: the file (when one is given) is loaded, every
\* bin variable is looked up, and the entries not labelled "used" are
\* listed in a warning; the result is the exception raised, the registry
\* afterwards and the list of the warning (empty: no warning)
check_and_load_binnings(reg, particle, bin_vars, binning_file) ==
    LET loaded == IF binning_file.given
                  THEN load_binnings(reg, binning_file.entries)
                  ELSE [raised |-> "", reg |-> reg]
        custom_binnings == IF binning_file.given THEN binning_file.entries ELSE <<>>
        checked == CheckBinVarsLoop(loaded.reg, particle, bin_vars, custom_binnings, {})
        unused == SelectSeq(DictItems(custom_binnings),
                            LAMBDA e : <<e.particle, e.variable>> \notin checked.used)
    IN  IF loaded.raised # ""
        THEN [raised |-> loaded.raised, reg |-> loaded.reg, unused |-> <<>>]
        ELSE IF checked.raised # ""
        THEN [raised |-> checked.raised, reg |-> loaded.reg, unused |-> <<>>]
        ELSE [raised |-> "", reg |-> loaded.reg,
              unused |-> [i \in 1..Len(unused) |->
                            [particle |-> unused[i].particle,
                             bin_var |-> unused[i].variable]]]

----------------------------------------------------------------------------
(* boost-histogram: a histogram with variable axes and flow cells *)

\* faulty variant of AxisIndex: bins closed on the right, (e_i, e_i+1]
AxisIndex_LeftExclusive(edges, x) ==
    Cardinality({i \in 1..Len(edges) : edges[i] < x}) - 1

\* bh.axis.Variable.index with underflow and overflow enabled:
\* upper_bound(edges, x) - 1, i.e. -1 below the first edge and
\* size at or above the last edge
AxisIndex(edges, x) ==
    Cardinality({i \in 1..Len(edges) : edges[i] <= x}) - 1

AxisSizes(axes) == [i \in 1..Len(axes) |-> Len(axes[i].edges) - 1]

RECURSIVE CoordSet(_, _)
CoordSet(sizes, flow) ==
    IF sizes = <<>> THEN {<<>>}
    ELSE LET rng == IF flow THEN (-1)..sizes[1] ELSE 0..(sizes[1] - 1)
         IN  {<<i>> \o t : i \in rng, t \in CoordSet(Tail(sizes), flow)}

\* all cells of a histogram, flow cells included
FlowCoords(axes) == CoordSet(AxisSizes(axes), TRUE)

\* the cells of view(flow=False)
InRangeCoords(axes) == CoordSet(AxisSizes(axes), FALSE)

NoHist == [axes |-> <<>>, cells |-> <<>>]

RECURSIVE SumSeq(_)
SumSeq(s) == IF s = <<>> THEN 0 ELSE Head(s) + SumSeq(Tail(s))

\* the cell a row is filled into: one index per axis
FillCoord(axes, r) ==
    [i \in 1..Len(axes) |-> AxisIndex(axes[i].edges, r[axes[i].name])]

\* bh.Histogram(*axis_list).fill(*vals_list, weight=weights)
HistFill(axes, df, weights) ==
    [axes |-> axes,
     cells |-> [c \in FlowCoords(axes) |->
                  FromInt(SumSeq([i \in 1..Len(df) |->
                             IF FillCoord(axes, df[i]) = c THEN weights[i] ELSE 0]))]]

\* hist[...] = values : overwrite the in-range cells, keep the flow cells
HistAssign(hist, values) ==
    [hist EXCEPT !.cells =
        [c \in DOMAIN hist.cells |->
            IF c \in InRangeCoords(hist.axes) THEN values[c] ELSE hist.cells[c]]]

----------------------------------------------------------------------------
(* utils.py: histogram building and efficiency estimation *)

make_hist(reg, df, particle, bin_vars, square_weights) ==
    LET axis_list == [i \in 1..Len(bin_vars) |->
                        [name  |-> bin_vars[i],
                         edges |-> get_binning(reg, particle, bin_vars[i]).edges]]
        weights == [i \in 1..Len(df) |->
                      IF square_weights THEN df[i].sWeight * df[i].sWeight
                      ELSE df[i].sWeight]
    IN  HistFill(axis_list, df, weights)

\* df.query(pid_cut) for the PID cuts of the model
PassesCut(pid_cut, r) ==
    IF pid_cut = "DLLK>4" THEN r.DLLK > 4 ELSE r.DLLK > 0

Query(df, pid_cut) == SelectSeq(df, LAMBDA r : PassesCut(pid_cut, r))

SeqRange(s) == {s[i] : i \in 1..Len(s)}

\* keys of the histogram dict: <<"total">>, <<"total_sumw2">>,
\* <<"passing", cut>>, <<"passing_sumw2", cut>>, <<"eff", cut>>
LocalHists(reg, df, particle, bin_vars, pid_cuts) ==
    [name \in {<<"total">>, <<"total_sumw2">>}
              \cup {<<kind, cut>> : kind \in {"passing", "passing_sumw2"},
                                    cut \in SeqRange(pid_cuts)} |->
        IF name = <<"total">> THEN make_hist(reg, df, particle, bin_vars, FALSE)
        ELSE IF name = <<"total_sumw2">> THEN make_hist(reg, df, particle, bin_vars, TRUE)
        ELSE make_hist(reg, Query(df, name[2]), particle, bin_vars,
                       name[1] = "passing_sumw2")]

\* faulty variant of TotalWithNaN: the zeros of total are left alone
TotalWithNaN_Unchanged(total) == total

\* lines 69-82: zeros of the in-range total cells become NaN, in place
TotalWithNaN(total) ==
    LET zero_bins == Cardinality({c \in InRangeCoords(total.axes) : IsZero(total.cells[c])})
    IN  IF zero_bins # 0
        THEN HistAssign(total, [c \in InRangeCoords(total.axes) |->
                                   IF IsZero(total.cells[c]) THEN NaN ELSE total.cells[c]])
        ELSE total

\* faulty variant of EffOf: total / passing
EffOf_Inverted(passing, total) ==
    HistAssign(passing, [c \in InRangeCoords(passing.axes) |->
                            XDiv(total.cells[c], passing.cells[c])])

\* lines 84-91: eff_<cut> = copy of passing_<cut> with in-range cells passing / total
EffOf(passing, total) ==
    HistAssign(passing, [c \in InRangeCoords(passing.axes) |->
                            XDiv(passing.cells[c], total.cells[c])])

\* faulty variant of create_eff_histograms: eff_<cut> is passing_<cut>
\* itself, not a copy of it, so the ratio is written into both
create_eff_histograms_NoCopy(hs) ==
    LET total == TotalWithNaN(hs[<<"total">>])
        hs1   == [hs EXCEPT ![<<"total">>] = total]
        cuts  == {name[2] : name \in {m \in DOMAIN hs : m[1] = "passing"}}
    IN  [name \in DOMAIN hs1 \cup {<<"eff", cut>> : cut \in cuts} |->
            IF name[1] \in {"eff", "passing"}
            THEN EffOf(hs1[<<"passing", name[2]>>], total)
            ELSE hs1[name]]

create_eff_histograms(hs) ==
    LET total == TotalWithNaN(hs[<<"total">>])
        hs1   == [hs EXCEPT ![<<"total">>] = total]
        cuts  == {name[2] : name \in {m \in DOMAIN hs : m[1] = "passing"}}
    IN  [name \in DOMAIN hs1 \cup {<<"eff", cut>> : cut \in cuts} |->
            IF name[1] = "eff"
            THEN EffOf(hs1[<<"passing", name[2]>>], total)
            ELSE hs1[name]]

\* faulty variant of binomial_uncertainty: divides by num_total, not by its square
binomial_uncertainty_UnsquaredTotal(num_pass, num_total, err_pass_sq, err_tot_sq) ==
    LET prob    == XDiv(num_pass, num_total)
        prob_sq == XSq(prob)
    IN  XSqrt(XAbs(XDiv(XAdd(XMul(XSub(One, XMul(FromInt(2), prob)), err_pass_sq),
                             XMul(err_tot_sq, prob_sq)),
                        num_total)))

binomial_uncertainty(num_pass, num_total, err_pass_sq, err_tot_sq) ==
    LET prob         == XDiv(num_pass, num_total)
        prob_sq      == XSq(prob)
        num_total_sq == XSq(num_total)
    IN  XSqrt(XAbs(XDiv(XAdd(XMul(XSub(One, XMul(FromInt(2), prob)), err_pass_sq),
                             XMul(err_tot_sq, prob_sq)),
                        num_total_sq)))

\* eff_hists: the five histograms of one cut under the keys
\* eff, passing, total, passing_sumw2, total_sumw2
create_error_histogram(eh) ==
    HistAssign(eh.passing,
               [c \in InRangeCoords(eh.passing.axes) |->
                   binomial_uncertainty(eh.passing.cells[c], eh.total.cells[c],
                                        eh.passing_sumw2.cells[c],
                                        eh.total_sumw2.cells[c])])

----------------------------------------------------------------------------
(* Calibration run: histograms, efficiencies and errors from one table *)

MaxEvents == 2

\* (P, nTracks) of a calibration event: on the first edge of P, on an inner
\* edge, on the last edge, and on the last edge with nTracks below its range
CalPoints == {<<0, 10>>, <<100, 10>>, <<300, 10>>, <<300, -5>>}

DLLKValues == {2, 5}

Weights == {-1, 1, 2}

CalRows ==
    {[P |-> pt[1], nTracks |-> pt[2], DLLK |-> dllk, sWeight |-> w] :
        pt \in CalPoints, dllk \in DLLKValues, w \in Weights}

RECURSIVE SeqsUpTo(_, _)
\* all sequences over S of length at most n
SeqsUpTo(S, n) ==
    IF n = 0 THEN {<<>>}
    ELSE LET shorter == SeqsUpTo(S, n - 1)
         IN  shorter \cup {Append(t, x) : t \in {u \in shorter : Len(u) = n - 1}, x \in S}

NoCall == [particle |-> <<>>, bin_vars |-> <<>>, pid_cuts |-> <<>>, cut |-> "",
           prefixes |-> <<>>, compatibility |-> FALSE,
           op |-> "", variable |-> "", bin_edges |-> <<>>, path |-> <<>>,
           magnet |-> "", ref_pars |-> <<>>, local_dataframe |-> FALSE,
           cuts |-> <<>>, hardcoded |-> <<>>, order |-> <<>>]

NoFrame == [columns |-> {}, rows |-> <<>>]

\* the five histograms of one PID cut, as they are pickled and loaded
ArtifactOf(hs, cut) ==
    [eff           |-> IF <<"eff", cut>> \in DOMAIN hs THEN hs[<<"eff", cut>>] ELSE NoHist,
     passing       |-> hs[<<"passing", cut>>],
     total         |-> hs[<<"total">>],
     passing_sumw2 |-> hs[<<"passing_sumw2", cut>>],
     total_sumw2   |-> hs[<<"total_sumw2">>]]

InitCalib ==
    /\ pc = "start"
    /\ binnings = ModelBinnings
    /\ df_cal \in SeqsUpTo(CalRows, MaxEvents)
    /\ hists = <<>>
    /\ err_hist = NoHist
    /\ eff_hists = <<>>
    /\ df_ref = NoFrame
    /\ df_idx = NoFrame
    /\ df_eff = NoFrame
    /\ raised = ""
    /\ call = NoCall
    /\ ret = <<>>
    /\ files = <<>>
    /\ log = <<>>
    /\ ncalls = 0

\* create_histograms_from_local_dataframe without user cuts
CreateHistograms ==
    /\ pc = "start"
    /\ \E bin_vars \in {<<"P", "nTracks">>},
          pid_cuts \in {<<"DLLK>0", "DLLK>4">>} :
          /\ hists' = LocalHists(binnings, df_cal, <<"K">>, bin_vars, pid_cuts)
          /\ call' = [call EXCEPT !.particle = <<"K">>, !.bin_vars = bin_vars,
                                  !.pid_cuts = pid_cuts]
    /\ pc' = "hists"
    /\ UNCHANGED <<binnings, df_cal, err_hist, eff_hists, df_ref, df_idx, df_eff, raised>>
    /\ UNCHANGED ioVars

\* create_eff_histograms on the dict built from one table ("hists"), on
\* the dict add_hists returned ("added") and once more on its own result
\* ("eff_merged"); the dict add_hists returned is the first dict of its
\* argument list, which therefore changes with it
CreateEffHistograms ==
    /\ pc \in {"hists", "added", "eff_merged"} /\ raised = ""
    /\ hists' = create_eff_histograms(hists)
    /\ pc' = IF pc = "hists" THEN "eff"
             ELSE IF pc = "added" THEN "eff_merged" ELSE "eff_again"
    /\ ret' = IF pc = "hists" THEN ret ELSE [ret EXCEPT ![1].hists = hists']
    /\ UNCHANGED <<binnings, df_cal, err_hist, eff_hists, df_ref, df_idx, df_eff, raised, call>>
    /\ UNCHANGED <<files, log, ncalls>>

\* create_error_histogram on the five histograms of one cut, either as built
\* by make_hist or as stored after create_eff_histograms
CreateErrorHistogram ==
    /\ pc \in {"hists", "eff"}
    /\ \E cut \in SeqRange(call.pid_cuts) :
          /\ err_hist' = create_error_histogram(ArtifactOf(hists, cut))
          /\ call' = [call EXCEPT !.cut = cut]
    /\ pc' = IF pc = "hists" THEN "error_raw" ELSE "error"
    /\ UNCHANGED <<binnings, df_cal, hists, eff_hists, df_ref, df_idx, df_eff, raised>>
    /\ UNCHANGED ioVars

NextCalib == CreateHistograms \/ CreateEffHistograms \/ CreateErrorHistogram

SpecCalib == InitCalib /\ [][NextCalib]_vars

----------------------------------------------------------------------------
(* Properties of the calibration run *)

RECURSIVE SumSet(_, _)
\* sum of f[x] over the finite set S
SumSet(f, S) ==
    IF S = {} THEN 0
    ELSE LET x == CHOOSE y \in S : TRUE IN f[x] + SumSet(f, S \ {x})

\* first edge <= x < last edge
InAxisRange(edges, x) == edges[1] <= x /\ x < edges[Len(edges)]

\* the cell a value tuple belongs to, stated bin by bin: bin i of an axis is
\* [edges[i+1], edges[i+2]), -1 is below the first edge, size is at or above
\* the last edge
CellOf(axes, r) ==
    [a \in 1..Len(axes) |->
        LET e == axes[a].edges
            x == r[axes[a].name]
        IN  IF x < e[1] THEN -1
            ELSE IF x >= e[Len(e)] THEN Len(e) - 1
            ELSE CHOOSE i \in 0..(Len(e) - 2) : e[i + 1] <= x /\ x < e[i + 2]]

RowInRange(axes, r) ==
    \A a \in 1..Len(axes) : InAxisRange(axes[a].edges, r[axes[a].name])

\* the rows and the weight a histogram of the dict is filled with
RowsOf(name) == IF Len(name) = 1 THEN df_cal ELSE Query(df_cal, name[2])

WeightOf(name, r) ==
    IF name[1] \in {"total_sumw2", "passing_sumw2"} THEN r.sWeight * r.sWeight
    ELSE r.sWeight

\* C8: make_hist adds each row's (squared) sWeight to exactly one cell, the
\* in-range cell of its values when all of them lie in [first edge, last
\* edge) and a flow cell otherwise; so the in-range cells sum to the
\* (squared) weights of the rows inside all axis ranges.
C8_MakeHistFillsOneCell ==
    pc = "hists" =>
        \A name \in DOMAIN hists :
            LET h    == hists[name]
                rows == RowsOf(name)
                w    == [i \in 1..Len(rows) |-> WeightOf(name, rows[i])]
            IN  /\ \A c \in DOMAIN h.cells :
                       /\ h.cells[c].k = "fin" /\ h.cells[c].d = 1
                       /\ h.cells[c].n =
                            SumSet(w, {i \in 1..Len(rows) : CellOf(h.axes, rows[i]) = c})
                /\ \A i \in 1..Len(rows) :
                       RowInRange(h.axes, rows[i])
                           <=> CellOf(h.axes, rows[i]) \in InRangeCoords(h.axes)
                /\ SumSet([c \in InRangeCoords(h.axes) |-> h.cells[c].n],
                          InRangeCoords(h.axes))
                     = SumSet(w, {i \in 1..Len(rows) : RowInRange(h.axes, rows[i])})

\* a row on the first edge, a row on the last edge and a row below the range
\* have been histogrammed
C8_Witness ==
    /\ pc = "hists"
    /\ \E i, j \in 1..Len(df_cal) :
          /\ df_cal[i].P = 0 /\ df_cal[i].nTracks = 10
          /\ df_cal[j].P = 300 \/ df_cal[j].nTracks = -5
          /\ hists[<<"total">>].cells[<<0, 0>>].n = df_cal[i].sWeight

\* C6: every in-range cell of eff_<cut> is passing_<cut> / total of that
\* cell; a cell whose total is exactly zero gets NaN whatever its passing
\* content.
C6_EffIsRatioOrNaN ==
    [][(pc = "hists" /\ pc' = "eff") =>
        \A cut \in SeqRange(call.pid_cuts) :
            /\ <<"eff", cut>> \in DOMAIN hists'
            /\ \A c \in InRangeCoords(hists[<<"total">>].axes) :
                  LET t == hists[<<"total">>].cells[c]
                      p == hists[<<"passing", cut>>].cells[c]
                      e == hists'[<<"eff", cut>>].cells[c]
                  IN  IF t.n = 0 THEN e.k = "nan"
                      ELSE e.k = "fin" /\ e.n * t.n = p.n * e.d]_vars

\* an empty-total cell with non-zero passing content got a NaN efficiency
C6_Witness ==
    /\ pc = "eff"
    /\ \E c \in InRangeCoords(hists[<<"total">>].axes) :
          /\ hists[<<"passing", "DLLK>4">>].cells[c].n # 0
          /\ hists[<<"total_sumw2">>].cells[c].n > 1
          /\ hists[<<"eff", "DLLK>4">>].cells[c].k = "nan"

\* the cells create_error_histogram read for the error histogram
ErrInput == ArtifactOf(hists, call.cut)

\* err^2 * t^4 = |t*(t - 2p)*ep2 + et2*p^2| for a finite error and integer cells
ErrSquareRelation(err, p, t, ep2, et2) ==
    /\ err.k = "surd"
    /\ XLe(Zero, err.c) /\ XLe(Zero, err.r)
    /\ LET sq == SurdSq(err)
       IN  sq.n * t.n * t.n * t.n * t.n
             = sq.d * AbsInt(t.n * (t.n - 2 * p.n) * ep2.n + et2.n * p.n * p.n)

\* C7 as claimed: finite, non-negative and given by the formula when t # 0,
\* NaN when t = 0.
C7_Original ==
    pc \in {"error_raw", "error"} =>
        \A c \in InRangeCoords(err_hist.axes) :
            LET p == ErrInput.passing.cells[c]
                t == ErrInput.total.cells[c]
            IN  IF t.k = "fin" /\ t.n # 0
                THEN ErrSquareRelation(err_hist.cells[c], p, t,
                                       ErrInput.passing_sumw2.cells[c],
                                       ErrInput.total_sumw2.cells[c])
                ELSE err_hist.cells[c].k = "nan"

\* C7 (amended): for t # 0 the error is finite, non-negative and its square
\* times t^4 is |t*(t - 2p)*ep2 + et2*p^2|; for t = 0 it is not finite: NaN
\* when p >= 0 and +infinity when p < 0; for an undefined total it is NaN.
\* The flow cells are those of the passing histogram.
C7_BinomialUncertainty ==
    pc \in {"error_raw", "error"} =>
        /\ \A c \in InRangeCoords(err_hist.axes) :
            LET p == ErrInput.passing.cells[c]
                t == ErrInput.total.cells[c]
            IN  IF t.k = "fin" /\ t.n # 0
                THEN ErrSquareRelation(err_hist.cells[c], p, t,
                                       ErrInput.passing_sumw2.cells[c],
                                       ErrInput.total_sumw2.cells[c])
                ELSE IF t.k = "fin" /\ p.n < 0
                THEN err_hist.cells[c] = Inf(1)
                ELSE err_hist.cells[c].k = "nan"
        /\ \A c \in DOMAIN err_hist.cells \ InRangeCoords(err_hist.axes) :
               err_hist.cells[c] = ErrInput.passing.cells[c]

\* an error was computed from histograms as built by make_hist for a cell
\* with t = 0 and negative passing content
C7_Witness ==
    /\ pc = "error_raw"
    /\ \E c \in InRangeCoords(err_hist.axes) :
          /\ ErrInput.total.cells[c].n = 0
          /\ ErrInput.passing.cells[c].n < 0
          /\ ErrInput.passing_sumw2.cells[c].n > 0
          /\ err_hist.cells[c] = Inf(1)

\* C9 as claimed: total > 0 and passing <= total give 0 <= efficiency <= 1.
C9_Original ==
    pc = "eff" =>
        \A cut \in SeqRange(call.pid_cuts) :
            \A c \in InRangeCoords(hists[<<"total">>].axes) :
                LET t == hists[<<"total">>].cells[c]
                    p == hists[<<"passing", cut>>].cells[c]
                    e == hists[<<"eff", cut>>].cells[c]
                IN  (t.k = "fin" /\ t.n > 0 /\ p.n <= t.n)
                        => (e.k = "fin" /\ 0 <= e.n /\ e.n <= e.d)

\* C9 (amended): total > 0 and 0 <= passing <= total give
\* 0 <= efficiency <= 1.
C9_EffInUnitInterval ==
    pc = "eff" =>
        \A cut \in SeqRange(call.pid_cuts) :
            \A c \in InRangeCoords(hists[<<"total">>].axes) :
                LET t == hists[<<"total">>].cells[c]
                    p == hists[<<"passing", cut>>].cells[c]
                    e == hists[<<"eff", cut>>].cells[c]
                IN  (t.k = "fin" /\ t.n > 0 /\ 0 <= p.n /\ p.n <= t.n)
                        => (e.k = "fin" /\ 0 <= e.n /\ e.n <= e.d)

\* a cell with 0 < passing < total got an efficiency strictly between 0 and 1
C9_Witness ==
    /\ pc = "eff"
    /\ \E c \in InRangeCoords(hists[<<"total">>].axes) :
          /\ hists[<<"passing", "DLLK>4">>].cells[c].n > 0
          /\ hists[<<"passing", "DLLK>4">>].cells[c].n < hists[<<"total">>].cells[c].n
          /\ hists[<<"eff", "DLLK>4">>].cells[c].n > 0
          /\ hists[<<"eff", "DLLK>4">>].cells[c].n < hists[<<"eff", "DLLK>4">>].cells[c].d

----------------------------------------------------------------------------
(* pid_data.py and utils.py: bin indices and efficiencies of reference rows *)

\* A DataFrame is [columns, rows]; a row is [idx |-> index label,
\* cols |-> column name -> value], every value an extended rational or a
\* square-root value.

global_branches == {"nTracks", "nTracks_Brunel", "nSPDhits", "nSPDhits_Brunel"}

\* faulty variant of get_reference_branch_name: the name of the branch, not
\* that of the variable, decides
get_reference_branch_name_ByBranch(prefix, bin_var, bin_var_branch) ==
    IF bin_var_branch \in global_branches THEN bin_var_branch
    ELSE prefix \o "_" \o bin_var_branch

get_reference_branch_name(prefix, bin_var, bin_var_branch) ==
    IF bin_var \in global_branches THEN bin_var_branch
    ELSE prefix \o "_" \o bin_var_branch

\* faulty variant of PdCut: a value on the last edge falls into the last bin
PdCut_LastEdgeIncluded(x, bins) ==
    IF x.k # "fin" \/ bins = <<>> THEN NaN
    ELSE LET searchsorted == Cardinality({i \in 1..Len(bins) : bins[i] * x.d <= x.n})
             ids == IF x.n = bins[1] * x.d THEN 1
                    ELSE IF x.n = bins[Len(bins)] * x.d THEN Len(bins) - 1
                    ELSE searchsorted
         IN  IF ids = Len(bins) \/ ids = 0 THEN NaN ELSE FromInt(ids - 1)

\* pd.cut(x, bins, labels=False, include_lowest=True, right=False):
\* ids = bins.searchsorted(x, side="right"); include_lowest sets ids to 1
\* where x == bins[0]; ids == 0, ids == len(bins) and NaN give NaN; the
\* label is ids - 1
PdCut(x, bins) ==
    IF x.k # "fin" \/ bins = <<>> THEN NaN
    ELSE LET searchsorted == Cardinality({i \in 1..Len(bins) : bins[i] * x.d <= x.n})
             ids == IF x.n = bins[1] * x.d THEN 1 ELSE searchsorted
         IN  IF ids = Len(bins) \/ ids = 0 THEN NaN ELSE FromInt(ids - 1)

RECURSIVE ravel_multi_index(_, _)
\* faulty variant of ravel_multi_index: column-major order for up to two axes
ravel_multi_index_ColumnMajor(multi_index, dims) ==
    IF Len(multi_index) = 0 THEN 0
    ELSE multi_index[1]
           + dims[1] * (IF Len(multi_index) > 1 THEN multi_index[2] ELSE 0)

\* np.ravel_multi_index(multi_index, dims) for one row, C order
ravel_multi_index(multi_index, dims) ==
    IF Len(multi_index) = 0 THEN 0
    ELSE LET n == Len(multi_index)
         IN  ravel_multi_index(SubSeq(multi_index, 1, n - 1), SubSeq(dims, 1, n - 1))
                 * dims[n] + multi_index[n]

RECURSIVE Unravel(_, _)
\* coordinates of position f of a C-ordered array of shape dims
Unravel(f, dims) ==
    IF Len(dims) = 0 THEN <<>>
    ELSE LET n == Len(dims)
         IN  Append(Unravel(f \div dims[n], SubSeq(dims, 1, n - 1)), f % dims[n])

RECURSIVE Product(_)
Product(s) == IF s = <<>> THEN 1 ELSE Head(s) * Product(Tail(s))

\* faulty variant of Flatten: the cells of a two-axis histogram in column-major order
Flatten_ColumnMajor(hist) ==
    [f \in 0..(Product(AxisSizes(hist.axes)) - 1) |->
        hist.cells[<<f % AxisSizes(hist.axes)[1], f \div AxisSizes(hist.axes)[1]>>]]

\* hist.view().flatten(): the in-range cells in C order, positions 0..N-1
Flatten(hist) ==
    [f \in 0..(Product(AxisSizes(hist.axes)) - 1) |->
        hist.cells[Unravel(f, AxisSizes(hist.axes))]]

\* faulty variant of nan_to_num: nothing is replaced
nan_to_num_Identity(table) == table

\* np.nan_to_num(table): NaN becomes 0 (an efficiency is never infinite,
\* create_eff_histograms divides by NaN instead of zero)
nan_to_num(table) ==
    [f \in DOMAIN table |-> IF table[f].k = "nan" THEN Zero ELSE table[f]]

\* df[c] = v for one row
SetCol(r, c, v) ==
    [r EXCEPT !.cols = [k \in DOMAIN r.cols \cup {c} |-> IF k = c THEN v ELSE r.cols[k]]]

DropCol(r, c) == [r EXCEPT !.cols = [k \in DOMAIN r.cols \ {c} |-> r.cols[k]]]

\* df.isna().any(axis=1) for one row
RowHasNa(r) == \E c \in DOMAIN r.cols : r.cols[c].k = "nan"

RECURSIVE SortRows(_)
\* sort_index: rows by ascending index label
SortRows(rows) ==
    IF rows = <<>> THEN <<>>
    ELSE LET m == CHOOSE i \in 1..Len(rows) :
                     /\ \A j \in 1..Len(rows) : rows[i].idx <= rows[j].idx
                     /\ \A j \in 1..(i - 1) : rows[j].idx # rows[i].idx
         IN  <<rows[m]>> \o SortRows(SubSeq(rows, 1, m - 1) \o SubSeq(rows, m + 1, Len(rows)))

\* faulty variant of ConcatSorted: the rows of the second frame are lost
ConcatSorted_FirstOnly(a, b) ==
    [columns |-> a.columns \cup b.columns, rows |-> SortRows(a.rows)]

\* pd.concat([a, b]).sort_index(): union of the columns, NaN where a frame
\* lacks a column
ConcatSorted(a, b) ==
    LET columns == a.columns \cup b.columns
        Widen(r) == [r EXCEPT !.cols = [c \in columns |->
                        IF c \in DOMAIN r.cols THEN r.cols[c] ELSE NaN]]
    IN  [columns |-> columns,
         rows |-> SortRows([i \in 1..Len(a.rows) |-> Widen(a.rows[i])]
                           \o [i \in 1..Len(b.rows) |-> Widen(b.rows[i])])]

\* bin_vars is a dict {variable: branch}: a sequence of [var, branch] in key order
BranchOf(bin_vars, var) ==
    LET i == CHOOSE j \in 1..Len(bin_vars) : bin_vars[j].var = var
    IN  bin_vars[i].branch

\* lines 141-144: the edges of the (last) axis named bin_var, [] when none
BinsOf(hist_axes, bin_var) ==
    LET matches == {i \in 1..Len(hist_axes) : hist_axes[i].name = bin_var}
    IN  IF matches = {} THEN <<>>
        ELSE hist_axes[CHOOSE i \in matches : \A j \in matches : j <= i].edges

RECURSIVE CutColumns(_, _, _, _)
\* lines 137-152 for one row: one <branch>_PIDCalibBin column per key of bin_vars
CutColumns(r, prefix, bin_vars, hist_axes) ==
    IF bin_vars = <<>> THEN r
    ELSE LET bin_var         == Head(bin_vars).var
             ref_branch_name == get_reference_branch_name(prefix, bin_var, Head(bin_vars).branch)
         IN  CutColumns(SetCol(r, ref_branch_name \o "_PIDCalibBin",
                               PdCut(r.cols[ref_branch_name], BinsOf(hist_axes, bin_var))),
                        prefix, Tail(bin_vars), hist_axes)

\* lines 130-161: the body of the loop over the prefixes up to the
\* concatenation: df_new as it is modified in place, and df_nan
AddBinIndicesParts(df, prefix, bin_vars, eff_histo) ==
    LET axes == [i \in 1..Len(eff_histo.axes) |->
                    get_reference_branch_name(prefix, eff_histo.axes[i].name,
                                              BranchOf(bin_vars, eff_histo.axes[i].name))]
        cut_rows == [i \in 1..Len(df.rows) |->
                        CutColumns(df.rows[i], prefix, bin_vars, eff_histo.axes)]
        columns  == df.columns
                    \cup {get_reference_branch_name(prefix, bin_vars[i].var, bin_vars[i].branch)
                              \o "_PIDCalibBin" : i \in 1..Len(bin_vars)}
        df_nan   == [columns |-> columns, rows |-> SelectSeq(cut_rows, RowHasNa)]
        dropna   == SelectSeq(cut_rows, LAMBDA r : ~RowHasNa(r))
        index_names == [i \in 1..Len(axes) |-> axes[i] \o "_PIDCalibBin"]
        Indices(r) == ravel_multi_index([i \in 1..Len(axes) |-> r.cols[index_names[i]].n],
                                        AxisSizes(eff_histo.axes))
        df_new   == [columns |-> columns \cup {prefix \o "_PIDCalibBin"},
                     rows |-> [i \in 1..Len(dropna) |->
                                 SetCol(dropna[i], prefix \o "_PIDCalibBin",
                                        FromInt(Indices(dropna[i])))]]
    IN  [df_new |-> df_new, df_nan |-> df_nan]

\* lines 130-162: the body of the loop over the prefixes
AddBinIndicesOf(df, prefix, bin_vars, eff_histo) ==
    LET parts == AddBinIndicesParts(df, prefix, bin_vars, eff_histo)
    IN  ConcatSorted(parts.df_new, parts.df_nan)

RECURSIVE add_bin_indices(_, _, _, _)
add_bin_indices(df, prefixes, bin_vars, effhists) ==
    IF prefixes = <<>> THEN df
    ELSE add_bin_indices(AddBinIndicesOf(df, Head(prefixes), bin_vars,
                                         effhists[Head(prefixes)].eff),
                         Tail(prefixes), bin_vars, effhists)

\* lines 196-219: the body of the first loop over the prefixes, for one row
AddEfficiencyOf(r, prefix, eh, compatibility) ==
    LET efficiency_table == IF compatibility THEN nan_to_num(Flatten(eh.eff))
                            ELSE Flatten(eh.eff)
        error_table == Flatten(create_error_histogram(eh))
        bin == r.cols[prefix \o "_PIDCalibBin"].n
        eff == efficiency_table[bin]
        err == error_table[bin]
        r1  == SetCol(SetCol(r, prefix \o "_PIDCalibEff", eff), prefix \o "_PIDCalibErr", err)
        r2  == SetCol(r1, "PIDCalibEff", XMul(r1.cols["PIDCalibEff"], eff))
    IN  SetCol(r2, "PIDCalibRelErr2",
               XAdd(r2.cols["PIDCalibRelErr2"], SurdSq(SurdDivX(err, eff))))

RECURSIVE AddEfficiencyLoop(_, _, _, _)
AddEfficiencyLoop(r, prefixes, effhists, compatibility) ==
    IF prefixes = <<>> THEN r
    ELSE AddEfficiencyLoop(AddEfficiencyOf(r, Head(prefixes), effhists[Head(prefixes)],
                                           compatibility),
                           Tail(prefixes), effhists, compatibility)

RECURSIVE ScaleErrLoop(_, _)
\* faulty variant of ScaleErrLoop: the relative error is not scaled
ScaleErrLoop_Unscaled(r, prefixes) == r

\* lines 222-223: PIDCalibErr *= <prefix>_PIDCalibEff for every prefix
ScaleErrLoop(r, prefixes) ==
    IF prefixes = <<>> THEN r
    ELSE ScaleErrLoop(SetCol(r, "PIDCalibErr",
                             SurdMulX(r.cols["PIDCalibErr"],
                                      r.cols[Head(prefixes) \o "_PIDCalibEff"])),
                      Tail(prefixes))

\* lines 192-225 for one row that has all its bin indices
RowEfficiencies(r, prefixes, effhists, compatibility) ==
    LET r0 == SetCol(SetCol(r, "PIDCalibEff", One), "PIDCalibRelErr2", Zero)
        r1 == AddEfficiencyLoop(r0, prefixes, effhists, compatibility)
        r2 == SetCol(r1, "PIDCalibErr", XSqrt(r1.cols["PIDCalibRelErr2"]))
    IN  DropCol(ScaleErrLoop(r2, prefixes), "PIDCalibRelErr2")

EffColumns(prefixes) ==
    {"PIDCalibEff", "PIDCalibErr"}
    \cup {prefixes[i] \o "_PIDCalibEff" : i \in 1..Len(prefixes)}
    \cup {prefixes[i] \o "_PIDCalibErr" : i \in 1..Len(prefixes)}

\* lines 184-225 of add_efficiencies: df_new as it is modified in place,
\* and df_nan
AddEfficienciesParts(df, prefixes, effhists, compatibility) ==
    LET df_nan == [columns |-> df.columns, rows |-> SelectSeq(df.rows, RowHasNa)]
        dropna == SelectSeq(df.rows, LAMBDA r : ~RowHasNa(r))
        df_new == [columns |-> df.columns \cup EffColumns(prefixes),
                   rows |-> [i \in 1..Len(dropna) |->
                               RowEfficiencies(dropna[i], prefixes, effhists, compatibility)]]
    IN  [df_new |-> df_new, df_nan |-> df_nan]

\* the DataFrame add_efficiencies builds (lines 184-227)
add_efficiencies(df, prefixes, effhists, compatibility) ==
    LET parts == AddEfficienciesParts(df, prefixes, effhists, compatibility)
    IN  ConcatSorted(parts.df_new, parts.df_nan)

\* Storage. A frame, an array or a histogram is stored either on storage of
\* its own (OwnStorage) or on the storage of the object it was taken from,
\* which is named by <<"df">> for the frame passed in and by <<prefix, name>>
\* for a histogram of eff_hists; a write in place changes the object the
\* storage belongs to.
OwnStorage == <<>>

\* DataFrame.copy() and Histogram.copy(): a new object on storage of its own
CopyStorage(base) == OwnStorage

\* Histogram.view(): an array on the storage of the histogram
ViewStorage(base) == base

\* faulty variant of FlattenStorage: the array stays on the storage it is
\* taken from, as with ndarray.ravel()
FlattenStorage_Shared(base) == base

\* ndarray.flatten(): a copy of the array on storage of its own
FlattenStorage(base) == OwnStorage

\* the frame passed to add_bin_indices after the call: lines 128-159 write
\* to df_new in place during the first pass of the loop, line 160 binds the
\* name df_new to a new frame
InputAfterAddBinIndices(df, prefixes, bin_vars, effhists) ==
    IF CopyStorage(<<"df">>) = OwnStorage \/ prefixes = <<>> THEN df
    ELSE AddBinIndicesParts(df, Head(prefixes), bin_vars,
                            effhists[Head(prefixes)].eff).df_new

\* the frame passed to add_efficiencies after the call: lines 184-225 write
\* to df_new in place
InputAfterAddEfficiencies(df, prefixes, effhists, compatibility) ==
    IF CopyStorage(<<"df">>) = OwnStorage THEN df
    ELSE AddEfficienciesParts(df, prefixes, effhists, compatibility).df_new

\* np.nan_to_num(copy=False) on the in-range cells of a histogram
NanToNumInPlace(hist) ==
    HistAssign(hist, [c \in InRangeCoords(hist.axes) |->
                         IF hist.cells[c].k = "nan" THEN Zero ELSE hist.cells[c]])

\* eff_hists after one pass of the loop of add_efficiencies (lines 196-206):
\* create_error_histogram assigns the uncertainties to a copy of the passing
\* histogram, nan_to_num writes to efficiency_table in place
EffHistsAfterOf(effhists, prefix, compatibility) ==
    LET efficiency_table == FlattenStorage(ViewStorage(<<prefix, "eff">>))
        err_histo == CopyStorage(<<prefix, "passing">>)
        after_err == IF err_histo = OwnStorage THEN effhists
                     ELSE [effhists EXCEPT ![prefix].passing =
                              create_error_histogram(effhists[prefix])]
    IN  IF compatibility /\ efficiency_table # OwnStorage
        THEN [after_err EXCEPT ![prefix].eff = NanToNumInPlace(@)]
        ELSE after_err

RECURSIVE EffHistsAfter(_, _, _)
\* eff_hists after add_efficiencies
EffHistsAfter(effhists, prefixes, compatibility) ==
    IF prefixes = <<>> THEN effhists
    ELSE EffHistsAfter(EffHistsAfterOf(effhists, Head(prefixes), compatibility),
                       Tail(prefixes), compatibility)

\* round(n / d) to the nearest integer, ties to even, for n >= 0 and d > 0
RoundHalfEven(n, d) ==
    LET q == n \div d
        r == n % d
    IN  IF 2 * r < d THEN q
        ELSE IF 2 * r > d THEN q + 1
        ELSE IF q % 2 = 0 THEN q ELSE q + 1

\* f"{x:.2%}": x as a percentage with two decimals, given in hundredths of
\* a percent ("33.33%" is 3333)
FormatPercent2(n, d) == RoundHalfEven(n * 10000, d)

\* faulty variant of OutOfRangeReport: the fraction is taken of the rows
\* that got an efficiency
OutOfRangeReport_OfScoredRows(df, prefixes, effhists, compatibility) ==
    LET parts == AddEfficienciesParts(df, prefixes, effhists, compatibility)
        num_outside_range == Len(parts.df_nan.rows)
    IN  [num_outside_range |-> num_outside_range,
         percent |-> FormatPercent2(num_outside_range,
                                    IF parts.df_new.rows = <<>> THEN 1
                                    ELSE Len(parts.df_new.rows))]

\* lines 229-237 of add_efficiencies: the warning "Events out of binning
\* range: {num_outside_range} ({num_outside_range_frac:.2%})" for a frame
\* with at least one row
OutOfRangeReport(df, prefixes, effhists, compatibility) ==
    LET parts == AddEfficienciesParts(df, prefixes, effhists, compatibility)
        num_outside_range == Len(parts.df_nan.rows)
    IN  [num_outside_range |-> num_outside_range,
         percent |-> FormatPercent2(num_outside_range,
                        Len(ConcatSorted(parts.df_new, parts.df_nan).rows))]

----------------------------------------------------------------------------
(* Reference run: add_bin_indices, then add_efficiencies *)

MaxRows == 2

Ev(p, n, dllk, w) == [P |-> p, nTracks |-> n, DLLK |-> dllk, sWeight |-> w]

\* calibration events behind the stored K histograms: of the in-range cells
\* (P bin, nTracks bin), (1,1) has two of three passing, (2,1) none of one
\* passing, (2,0) two of four passing and the others are empty
KCalSample ==
    << Ev(100, 40, 5, 2), Ev(100, 40, 2, 1), Ev(250, 60, 2, 1),
       Ev(250, 10, 5, 1), Ev(250, 10, 5, 1), Ev(250, 10, 2, 2) >>

\* calibration events behind the stored Pi histograms: (0,0) has three of
\* four passing, (1,0) one of two passing, (0,1) and (1,1) are empty
PiCalSample ==
    << Ev(0, 10, 5, 1), Ev(0, 40, 5, 2), Ev(0, 10, 2, 1),
       Ev(200, 10, 5, 1), Ev(200, 10, 2, 1) >>

\* ref_pars: branch prefix -> particle type; the PID cut is DLLK>4 for both
RefParticle == [prefix \in {"h1", "h2"} |-> IF prefix = "h1" THEN <<"K">> ELSE <<"Pi">>]

RefSample == [prefix \in {"h1", "h2"} |-> IF prefix = "h1" THEN KCalSample ELSE PiCalSample]

\* the histograms make_eff_hists stores for a particle and get_calib_hists loads
StoredHists(particle, sample) ==
    ArtifactOf(create_eff_histograms(
                   LocalHists(ModelBinnings, sample, particle, <<"P", "nTracks">>,
                              <<"DLLK>4">>)),
               "DLLK>4")

RefColumns == {"h1_P", "h2_P", "nTracks"}

\* (h1_P, h2_P, nTracks) of a reference row. h1_P: on an inner edge, inside
\* the last bin, on the last edge, below and above the range of K; h2_P: on
\* the first and on the last edge of Pi; nTracks: in the second bin of K,
\* and in the first and in the second bin of Pi
RefPoints ==
    {<<100, 0, 40>>, <<100, 0, 60>>, <<250, 0, 40>>, <<250, 0, 60>>,
     <<100, 300, 40>>, <<-10, 0, 40>>, <<300, 0, 60>>, <<301, 300, 60>>}

RefValues ==
    {[c \in RefColumns |->
         FromInt(IF c = "h1_P" THEN pt[1] ELSE IF c = "h2_P" THEN pt[2] ELSE pt[3])] :
        pt \in RefPoints}

\* index labels of a frame of n rows: ascending or descending
IndexLabels(n) == {[i \in 1..n |-> i - 1], [i \in 1..n |-> n - i]}

RefFrames ==
    UNION {{[columns |-> RefColumns,
             rows |-> [i \in 1..Len(vals) |-> [idx |-> labels[i], cols |-> vals[i]]]] :
               labels \in IndexLabels(Len(vals))} :
           vals \in SeqsUpTo(RefValues, MaxRows)}

PrefixLists == {<<"h1">>, <<"h1", "h2">>, <<"h2", "h1">>}

BinVarDicts ==
    {<<[var |-> "P", branch |-> "P"], [var |-> "nTracks", branch |-> "nTracks"]>>,
     <<[var |-> "nTracks", branch |-> "nTracks"], [var |-> "P", branch |-> "P"]>>}

InitRef ==
    /\ pc = "ref_start"
    /\ binnings = ModelBinnings
    /\ df_cal = <<>>
    /\ hists = <<>>
    /\ err_hist = NoHist
    /\ eff_hists = [prefix \in {"h1", "h2"} |->
                       StoredHists(RefParticle[prefix], RefSample[prefix])]
    /\ df_ref \in RefFrames
    /\ df_idx = NoFrame
    /\ df_eff = NoFrame
    /\ raised = ""
    /\ call = NoCall
    /\ ret = <<>>
    /\ files = <<>>
    /\ log = <<>>
    /\ ncalls = 0

AddBinIndices ==
    /\ pc = "ref_start"
    /\ \E prefixes \in PrefixLists, bin_vars \in BinVarDicts :
          /\ df_idx' = add_bin_indices(df_ref, prefixes, bin_vars, eff_hists)
          /\ df_ref' = InputAfterAddBinIndices(df_ref, prefixes, bin_vars, eff_hists)
          /\ call' = [call EXCEPT !.prefixes = prefixes]
    /\ pc' = "indexed"
    /\ UNCHANGED <<binnings, df_cal, hists, err_hist, eff_hists, df_eff, raised>>
    /\ UNCHANGED ioVars

\* add_efficiencies on the frame add_bin_indices returned; line 231 divides
\* by the number of rows
AddEfficiencies ==
    /\ pc = "indexed"
    /\ \E compatibility \in BOOLEAN :
          /\ call' = [call EXCEPT !.compatibility = compatibility]
          /\ eff_hists' = EffHistsAfter(eff_hists, call.prefixes, compatibility)
          /\ df_idx' = InputAfterAddEfficiencies(df_idx, call.prefixes, eff_hists,
                                                 compatibility)
          /\ IF Len(df_idx.rows) = 0
             THEN /\ raised' = "ZeroDivisionError"
                  /\ pc' = "failed"
                  /\ UNCHANGED <<df_eff, log>>
             ELSE /\ df_eff' = add_efficiencies(df_idx, call.prefixes, eff_hists, compatibility)
                  /\ log' = <<OutOfRangeReport(df_idx, call.prefixes, eff_hists,
                                               compatibility)>>
                  /\ pc' = "done"
                  /\ UNCHANGED raised
    /\ UNCHANGED <<binnings, df_cal, hists, err_hist, df_ref, ret, files, ncalls>>

NextRef == AddBinIndices \/ AddEfficiencies

SpecRef == InitRef /\ [][NextRef]_vars

\* Report run: the reference run on frames of up to MaxReportRows rows, each
\* row inside the range of both particles or below the range of K
MaxReportRows == 3

ReportFrames ==
    {[columns |-> RefColumns,
      rows |-> [i \in 1..Len(pts) |-> [idx |-> i - 1,
                  cols |-> [c \in RefColumns |->
                              FromInt(IF c = "h1_P" THEN pts[i][1]
                                      ELSE IF c = "h2_P" THEN pts[i][2] ELSE pts[i][3])]]]] :
        pts \in SeqsUpTo({<<100, 0, 40>>, <<-10, 0, 40>>}, MaxReportRows)}

InitReport ==
    /\ pc = "ref_start"
    /\ binnings = ModelBinnings
    /\ df_cal = <<>>
    /\ hists = <<>>
    /\ err_hist = NoHist
    /\ eff_hists = [prefix \in {"h1", "h2"} |->
                       StoredHists(RefParticle[prefix], RefSample[prefix])]
    /\ df_ref \in ReportFrames
    /\ df_idx = NoFrame
    /\ df_eff = NoFrame
    /\ raised = ""
    /\ call = NoCall
    /\ ret = <<>>
    /\ files = <<>>
    /\ log = <<>>
    /\ ncalls = 0

SpecReport == InitReport /\ [][NextRef]_vars

----------------------------------------------------------------------------
(* Properties of the reference run *)

\* the bin variables of a reference row for one prefix, named as the axes
RefEvent(r, prefix) ==
    [P |-> r.cols[prefix \o "_P"].n, nTracks |-> r.cols["nTracks"].n,
     DLLK |-> 5, sWeight |-> 1]

\* the row of a frame with a given index label
RowAt(frame, label) ==
    frame.rows[CHOOSE i \in 1..Len(frame.rows) : frame.rows[i].idx = label]

\* the row's values lie in [first edge, last edge) on every axis of the prefix
RefInRange(r, prefix) == RowInRange(eff_hists[prefix].eff.axes, RefEvent(r, prefix))

AllInRange(r) == \A p \in SeqRange(call.prefixes) : RefInRange(r, p)

RECURSIVE MixedRadix(_, _)
\* i0*(n1*...*nk) + i1*(n2*...*nk) + ... + ik
MixedRadix(index, sizes) ==
    IF index = <<>> THEN 0
    ELSE Head(index) * Product(Tail(sizes)) + MixedRadix(Tail(index), Tail(sizes))

\* C1: for each prefix, the flat index <prefix>_PIDCalibBin that
\* add_bin_indices sets is the row-major combination
\* i0*(n1*...*nk) + ... + ik of the row's per-axis bin indices, with the axes
\* in the order and with the sizes of that prefix's efficiency histogram; it
\* lies in 0..N-1, it is set for every row inside all ranges, and it is the
\* same for either order of the keys of bin_vars.
C1_FlatIndexIsMixedRadix ==
    pc = "indexed" =>
        \A p \in SeqRange(call.prefixes) :
            /\ \A i \in 1..Len(df_idx.rows) :
                   LET o     == df_idx.rows[i]
                       src   == RowAt(df_ref, o.idx)
                       axes  == eff_hists[p].eff.axes
                       sizes == AxisSizes(axes)
                       flat  == o.cols[p \o "_PIDCalibBin"]
                   IN  /\ AllInRange(src) => flat.k = "fin"
                       /\ flat.k = "fin" =>
                              /\ flat.d = 1
                              /\ RefInRange(src, p)
                              /\ flat.n = MixedRadix(CellOf(axes, RefEvent(src, p)), sizes)
                              /\ 0 <= flat.n /\ flat.n < Product(sizes)
            /\ \A bin_vars \in BinVarDicts :
                   LET other == add_bin_indices(df_ref, call.prefixes, bin_vars, eff_hists)
                   IN  \A i \in 1..Len(df_idx.rows) :
                           other.rows[i].cols[p \o "_PIDCalibBin"]
                               = df_idx.rows[i].cols[p \o "_PIDCalibBin"]

\* two prefixes with different histograms; rows in the cells (1,1) and (2,1)
\* of the 3x2 K histogram and in the cell (0,1) of the 2x2 Pi histogram
C1_Witness ==
    /\ pc = "indexed"
    /\ Len(call.prefixes) = 2
    /\ \E i, j \in 1..Len(df_idx.rows) :
          /\ df_idx.rows[i].cols["h1_PIDCalibBin"] = FromInt(3)
          /\ df_idx.rows[j].cols["h1_PIDCalibBin"] = FromInt(5)
          /\ df_idx.rows[j].cols["h2_PIDCalibBin"] = FromInt(1)

\* the value add_efficiencies reads from an efficiency table
TableEff(x) == IF call.compatibility /\ x.k = "nan" THEN Zero ELSE x

\* C2: a value tuple inside all axis ranges is filled by make_hist into the
\* very cell whose efficiency and error add_efficiencies reads for a
\* reference row with the same values: the flat index of the row is the
\* position of that cell in the flattened in-range view.
C2_RoundTrip ==
    pc = "done" =>
        \A p \in SeqRange(call.prefixes) : \A i \in 1..Len(df_eff.rows) :
            LET o     == df_eff.rows[i]
                src   == RowAt(df_ref, o.idx)
                ev    == RefEvent(src, p)
                probe == make_hist(binnings, <<ev>>, RefParticle[p], <<"P", "nTracks">>, FALSE)
                cell  == CHOOSE c \in DOMAIN probe.cells : probe.cells[c] = One
                flat  == o.cols[p \o "_PIDCalibBin"]
            IN  /\ probe.axes = eff_hists[p].eff.axes
                /\ RefInRange(src, p) => cell \in InRangeCoords(probe.axes)
                /\ AllInRange(src) => flat.k = "fin"
                /\ flat.k = "fin" => Flatten(probe)[flat.n] = One
                /\ AllInRange(src) =>
                       /\ o.cols[p \o "_PIDCalibEff"] = TableEff(eff_hists[p].eff.cells[cell])
                       /\ o.cols[p \o "_PIDCalibErr"]
                            = create_error_histogram(eff_hists[p]).cells[cell]

\* a row on an inner edge of the K binning and on the first edge of the Pi
\* binning has read the efficiencies 2/3 and 3/4 of the cells it is filled into
C2_Witness ==
    /\ pc = "done"
    /\ \E i \in 1..Len(df_eff.rows) :
          LET o == df_eff.rows[i]
          IN  /\ o.cols["h1_P"] = FromInt(100) /\ o.cols["h2_P"] = FromInt(0)
              /\ "h2_PIDCalibEff" \in DOMAIN o.cols
              /\ o.cols["h1_PIDCalibEff"] = Fin(2, 3)
              /\ o.cols["h2_PIDCalibEff"] = Fin(3, 4)

\* the per-axis bin column of the P branch of a prefix
PBinOf(o, prefix) == o.cols[prefix \o "_P_PIDCalibBin"]

SurdEq(a, b) ==
    /\ a.k = b.k
    /\ a.k = "inf" => a.n = b.n
    /\ a.k = "surd" => SignX(a.c) = SignX(b.c) /\ SurdSq(a) = SurdSq(b)

RECURSIVE ProductOfEff(_, _)
ProductOfEff(o, prefixes) ==
    IF prefixes = <<>> THEN One
    ELSE XMul(o.cols[Head(prefixes) \o "_PIDCalibEff"], ProductOfEff(o, Tail(prefixes)))

RECURSIVE SumOfRelErr2(_, _)
SumOfRelErr2(o, prefixes) ==
    IF prefixes = <<>> THEN Zero
    ELSE XAdd(SurdSq(SurdDivX(o.cols[Head(prefixes) \o "_PIDCalibErr"],
                              o.cols[Head(prefixes) \o "_PIDCalibEff"])),
              SumOfRelErr2(o, Tail(prefixes)))

\* C4: for a row in range for all prefixes, <prefix>_PIDCalibEff and
\* <prefix>_PIDCalibErr are the entries of the prefix's efficiency and
\* error tables at the row's flat index, PIDCalibEff is the product of the
\* <prefix>_PIDCalibEff, and PIDCalibErr is
\* sqrt(sum over prefixes of (err/eff)^2) times that product.
C4_RowEfficiencies ==
    pc = "done" =>
        \A i \in 1..Len(df_eff.rows) :
            LET o == df_eff.rows[i]
            IN  AllInRange(RowAt(df_ref, o.idx)) =>
                    /\ \A p \in SeqRange(call.prefixes) :
                           LET flat == o.cols[p \o "_PIDCalibBin"].n
                           IN  /\ o.cols[p \o "_PIDCalibEff"]
                                    = TableEff(Flatten(eff_hists[p].eff)[flat])
                               /\ o.cols[p \o "_PIDCalibErr"]
                                    = Flatten(create_error_histogram(eff_hists[p]))[flat]
                    /\ o.cols["PIDCalibEff"] = ProductOfEff(o, call.prefixes)
                    /\ SurdEq(o.cols["PIDCalibErr"],
                              SurdMulX(XSqrt(SumOfRelErr2(o, call.prefixes)),
                                       ProductOfEff(o, call.prefixes)))

\* a row with the efficiencies 2/3 and 3/4 has the combined efficiency 1/2
\* and a non-zero combined error
C4_Witness ==
    /\ pc = "done"
    /\ Len(call.prefixes) = 2
    /\ \E i \in 1..Len(df_eff.rows) :
          LET o == df_eff.rows[i]
          IN  /\ o.cols["h1_PIDCalibEff"] = Fin(2, 3)
              /\ o.cols["h2_PIDCalibEff"] = Fin(3, 4)
              /\ o.cols["PIDCalibEff"] = Fin(1, 2)
              /\ o.cols["PIDCalibErr"].k = "surd"
              /\ ~SurdIsZero(o.cols["PIDCalibErr"])

\* C5: every input row appears exactly once in the output of
\* add_efficiencies, under its index label and with its original values; a
\* row out of range for some prefix is kept with missing PIDCalibEff and
\* PIDCalibErr, and the only call that raises is the one on a table
\* without rows.
C5_RowsKept ==
    /\ pc = "done" =>
          /\ Len(df_eff.rows) = Len(df_ref.rows)
          /\ \A i \in 1..Len(df_ref.rows) :
                 LET src  == df_ref.rows[i]
                     outs == {j \in 1..Len(df_eff.rows) : df_eff.rows[j].idx = src.idx}
                 IN  /\ Cardinality(outs) = 1
                     /\ \A j \in outs :
                            /\ \A c \in RefColumns : df_eff.rows[j].cols[c] = src.cols[c]
                            /\ ~AllInRange(src) =>
                                   /\ df_eff.rows[j].cols["PIDCalibEff"] = NaN
                                   /\ df_eff.rows[j].cols["PIDCalibErr"] = NaN
    /\ pc = "failed" => Len(df_ref.rows) = 0
    /\ raised # "" => pc = "failed"

\* a table of an out-of-range row followed by an in-range row, both kept
C5_Witness ==
    /\ pc = "done"
    /\ Len(df_ref.rows) = 2
    /\ ~AllInRange(df_ref.rows[1])
    /\ AllInRange(df_ref.rows[2])
    /\ \E i, j \in 1..Len(df_eff.rows) :
          /\ df_eff.rows[i].idx = df_ref.rows[1].idx
          /\ df_eff.rows[i].cols["PIDCalibEff"] = NaN
          /\ df_eff.rows[j].idx = df_ref.rows[2].idx
          /\ df_eff.rows[j].cols["PIDCalibEff"].k = "fin"

\* C10: a row of a cell whose stored efficiency is NaN gets
\* <prefix>_PIDCalibEff = 0 and PIDCalibEff = 0 when add_efficiencies is
\* called with compatibility=True, and NaN for both with the default
\* compatibility=False.
C10_CompatibilityOnly ==
    pc = "done" =>
        \A i \in 1..Len(df_eff.rows) :
            LET o == df_eff.rows[i]
            IN  AllInRange(RowAt(df_ref, o.idx)) =>
                    \A p \in SeqRange(call.prefixes) :
                        LET flat == o.cols[p \o "_PIDCalibBin"].n
                            eff  == Flatten(eff_hists[p].eff)[flat]
                        IN  /\ eff.k = "nan" /\ call.compatibility =>
                                /\ o.cols[p \o "_PIDCalibEff"] = Zero
                                /\ o.cols["PIDCalibEff"] = Zero
                            /\ eff.k = "nan" /\ ~call.compatibility =>
                                /\ o.cols[p \o "_PIDCalibEff"] = NaN
                                /\ o.cols["PIDCalibEff"] = NaN
                            /\ eff.k # "nan" => o.cols[p \o "_PIDCalibEff"] = eff

\* compatibility mode has replaced the NaN of the empty Pi cell (0,1)
C10_Witness ==
    /\ pc = "done"
    /\ call.compatibility
    /\ \E i \in 1..Len(df_eff.rows) :
          LET o == df_eff.rows[i]
          IN  /\ "h2_PIDCalibEff" \in DOMAIN o.cols
              /\ o.cols["h2_PIDCalibBin"] = FromInt(1)
              /\ eff_hists["h2"].eff.cells[<<0, 1>>] = NaN
              /\ o.cols["h2_PIDCalibEff"] = Zero
              /\ o.cols["PIDCalibEff"] = Zero

\* the rows of the frame passed to add_efficiencies that lack an axis index
\* or a flat bin index: the columns add_bin_indices added are the indices
RowsWithoutIndex ==
    {i \in 1..Len(df_idx.rows) :
        \E c \in df_idx.columns \ df_ref.columns : df_idx.rows[i].cols[c].k = "nan"}

C16_InputsUnchanged ==
    [][ /\ (pc = "ref_start" /\ pc' = "indexed") =>
              eff_hists' = eff_hists /\ df_ref' = df_ref
        /\ (pc = "indexed" /\ pc' # "indexed") =>
              eff_hists' = eff_hists /\ df_idx' = df_idx /\ df_ref' = df_ref ]_vars

C16_Witness ==
    /\ pc = "done"
    /\ call.compatibility
    /\ Len(call.prefixes) = 2
    /\ \E c \in InRangeCoords(eff_hists["h1"].eff.axes) :
          eff_hists["h1"].eff.cells[c].k = "nan"
    /\ \E i \in 1..Len(df_idx.rows) : RowHasNa(df_idx.rows[i])
    /\ \E i \in 1..Len(df_eff.rows) : ~RowHasNa(df_eff.rows[i])

\* C24: with several prefixes, add_bin_indices gives a row the flat index
\* <prefix>_PIDCalibBin of a prefix exactly when the row lies inside the
\* range of every axis of that prefix, that is when all per-axis indices of
\* that prefix are present; a missing index of another prefix does not take
\* it away, whatever the place of the prefixes in the list.
C24_FlatIndexPerPrefix ==
    pc = "indexed" =>
        \A p \in SeqRange(call.prefixes) :
            \A i \in 1..Len(df_idx.rows) :
                (df_idx.rows[i].cols[p \o "_PIDCalibBin"].k = "fin")
                    <=> RefInRange(RowAt(df_ref, df_idx.rows[i].idx), p)

\* the index labels of a frame, in the order of its rows
LabelsOf(frame) == [i \in 1..Len(frame.rows) |-> frame.rows[i].idx]

\* C25: add_bin_indices and add_efficiencies return the rows in the order
\* and with the index labels of their input table, whatever the order of the
\* labels of that table.
C25_RowOrderKept ==
    /\ pc = "indexed" => LabelsOf(df_idx) = LabelsOf(df_ref)
    /\ pc = "done" => LabelsOf(df_eff) = LabelsOf(df_idx)

\* C27: add_efficiencies completes without raising for every input table,
\* a table whose rows are all out of range and a table with no rows included:
\* the report of the out-of-range fraction is never a failure.
C27_AddEfficienciesNeverRaises == pc \in {"done", "failed"} => raised = ""

----------------------------------------------------------------------------
(* Registry run: set_binning, load_binnings and get_binning on the registry *)

MaxCalls == 2

ListOf(items) == [kind |-> "list", items |-> items]

\* a float given where a list is expected
AFloat == [kind |-> "float", items |-> <<>>]

\* values of bin_edges: a list of one edge, lists of two and of three edges,
\* and a float
EdgeValues == {ListOf(<<5>>), ListOf(<<0, 50>>), ListOf(<<0, 20, 40>>), AFloat}

\* particles with a default binning, with a suffix and without any binning
SetParticles == {<<"K">>, <<"K", "DsPhi">>, <<"Mu">>}

GetParticles == SetParticles \cup {<<"K", "DsPhi", "Up">>}

RegVariables == {"P", "ETA"}

Entry(particle, variable, binning) ==
    [particle |-> particle, variable |-> variable, binning |-> binning]

\* parsed binning files: one of two valid entries, one whose second entry is
\* no list, and an empty one
BinningFiles ==
    { << Entry(<<"K", "DsPhi">>, "P", ListOf(<<0, 50>>)),
         Entry(<<"Mu">>, "ETA", ListOf(<<0, 20, 40>>)) >>,
      << Entry(<<"K">>, "P", ListOf(<<0, 50>>)),
         Entry(<<"K">>, "ETA", AFloat),
         Entry(<<"Mu">>, "P", ListOf(<<0, 50>>)) >>,
      << >> }

InitRegistry ==
    /\ pc = "registry"
    /\ binnings = ModelBinnings
    /\ df_cal = <<>>
    /\ hists = <<>>
    /\ err_hist = NoHist
    /\ eff_hists = <<>>
    /\ df_ref = NoFrame
    /\ df_idx = NoFrame
    /\ df_eff = NoFrame
    /\ raised = ""
    /\ call = NoCall
    /\ ret = <<>>
    /\ files = <<>>
    /\ log = <<>>
    /\ ncalls = 0

SetBinning ==
    /\ pc = "registry" /\ ncalls < MaxCalls
    /\ \E particle \in SetParticles, variable \in RegVariables, bin_edges \in EdgeValues :
          LET r == set_binning(binnings, particle, variable, bin_edges)
          IN  /\ binnings' = r.reg
              /\ raised' = r.raised
              /\ call' = [call EXCEPT !.op = "set_binning", !.particle = particle,
                                      !.variable = variable, !.bin_edges = bin_edges,
                                      !.path = <<>>]
    /\ ret' = <<>>
    /\ ncalls' = ncalls + 1
    /\ UNCHANGED <<pc, df_cal, hists, err_hist, eff_hists, df_ref, df_idx, df_eff, files, log>>

LoadBinnings ==
    /\ pc = "registry" /\ ncalls < MaxCalls
    /\ \E new_binnings \in BinningFiles :
          LET r == load_binnings(binnings, new_binnings)
          IN  /\ binnings' = r.reg
              /\ raised' = r.raised
              /\ ret' = IF r.raised = "" THEN new_binnings ELSE <<>>
              /\ call' = [call EXCEPT !.op = "load_binnings", !.particle = <<>>,
                                      !.variable = "", !.bin_edges = <<>>,
                                      !.path = new_binnings]
    /\ ncalls' = ncalls + 1
    /\ UNCHANGED <<pc, df_cal, hists, err_hist, eff_hists, df_ref, df_idx, df_eff, files, log>>

GetBinning ==
    /\ pc = "registry" /\ ncalls < MaxCalls
    /\ \E particle \in GetParticles, variable \in RegVariables :
          LET r == get_binning(binnings, particle, variable)
          IN  /\ ret' = r.edges
              /\ raised' = IF r.ok THEN "" ELSE "KeyError"
              /\ call' = [call EXCEPT !.op = "get_binning", !.particle = particle,
                                      !.variable = variable, !.bin_edges = <<>>,
                                      !.path = <<>>]
    /\ ncalls' = ncalls + 1
    /\ UNCHANGED <<pc, binnings, df_cal, hists, err_hist, eff_hists, df_ref, df_idx,
                   df_eff, files, log>>

\* binning files of check_and_load_binnings: none given, the files of
\* BinningFiles, and one that overrides K (used by K_DsPhi through the
\* fallback), K_DsPhi and Mu
CheckBinningFiles ==
    {[given |-> FALSE, entries |-> <<>>]}
    \cup {[given |-> TRUE, entries |-> f] : f \in BinningFiles}
    \cup {[given |-> TRUE,
           entries |-> << Entry(<<"K">>, "P", ListOf(<<0, 50>>)),
                          Entry(<<"K", "DsPhi">>, "ETA", ListOf(<<0, 20, 40>>)),
                          Entry(<<"Mu">>, "P", ListOf(<<0, 50>>)),
                          Entry(<<"K">>, "ETA", ListOf(<<0, 20, 40>>)) >>]}

CheckBinVars == {<<"P">>, <<"ETA">>, <<"P", "ETA">>}

CheckAndLoadBinnings ==
    /\ pc = "registry" /\ ncalls < MaxCalls
    /\ \E particle \in GetParticles, bin_vars \in CheckBinVars,
          binning_file \in CheckBinningFiles :
          LET r == check_and_load_binnings(binnings, particle, bin_vars, binning_file)
          IN  /\ binnings' = r.reg
              /\ raised' = r.raised
              /\ log' = IF r.unused = <<>> THEN <<>> ELSE <<[warning |-> r.unused]>>
              /\ call' = [call EXCEPT !.op = "check_and_load_binnings",
                                      !.particle = particle, !.variable = "",
                                      !.bin_edges = <<>>, !.bin_vars = bin_vars,
                                      !.path = binning_file]
    /\ ret' = <<>>
    /\ ncalls' = ncalls + 1
    /\ UNCHANGED <<pc, df_cal, hists, err_hist, eff_hists, df_ref, df_idx, df_eff, files>>

NextRegistry == SetBinning \/ LoadBinnings \/ GetBinning \/ CheckAndLoadBinnings

SpecRegistry == InitRegistry /\ [][NextRegistry]_vars

----------------------------------------------------------------------------
(* Properties of the registry run *)

\* the pairs (particle, variable) that have an entry
PairsOf(reg) ==
    UNION {{<<q, w>> : w \in DOMAIN reg[q]} : q \in DOMAIN reg}

\* C11: get_binning(p, v) returns the edges stored for (p, v) when the pair
\* has an entry; otherwise the edges stored for (p', v), p' being the part
\* of p before its first "_"; otherwise it raises KeyError and returns
\* nothing. It never changes the registry.
C11_GetBinningLookup ==
    [][call'.op = "get_binning" /\ ncalls' = ncalls + 1 =>
        LET p      == call'.particle
            v      == call'.variable
            before == <<p[1]>>
        IN  /\ binnings' = binnings
            /\ IF <<p, v>> \in PairsOf(binnings)
               THEN raised' = "" /\ ret' = binnings[p][v]
               ELSE IF <<before, v>> \in PairsOf(binnings)
               THEN raised' = "" /\ ret' = binnings[before][v]
               ELSE raised' = "KeyError" /\ ret' = <<>>]_vars

\* K_DsPhi_Up has no entry while K_DsPhi and K have different ones: the
\* lookup returned the edges of K
C11_Witness ==
    /\ call.op = "get_binning"
    /\ call.particle = <<"K", "DsPhi", "Up">>
    /\ call.variable = "P"
    /\ <<"K", "DsPhi">> \in DOMAIN binnings
    /\ "P" \in DOMAIN binnings[<<"K", "DsPhi">>]
    /\ binnings[<<"K", "DsPhi">>]["P"] = <<0, 50>>
    /\ raised = ""
    /\ ret = <<0, 100, 200, 300>>

\* the entries of the registry other than (p, v) are the same in reg and reg2
SameExcept(reg, reg2, pairs) ==
    /\ PairsOf(reg2) \ pairs = PairsOf(reg) \ pairs
    /\ \A pr \in PairsOf(reg) \ pairs : reg2[pr[1]][pr[2]] = reg[pr[1]][pr[2]]

\* the entries of a file before its first entry that is no list
RECURSIVE ListPrefix(_)
ListPrefix(new_binnings) ==
    IF new_binnings = <<>> \/ Head(new_binnings).binning.kind # "list" THEN <<>>
    ELSE <<Head(new_binnings)>> \o ListPrefix(Tail(new_binnings))

\* C12: set_binning(p, v, e) with e not a list raises TypeError and leaves
\* the registry unchanged; with a list the entry of (p, v) becomes exactly
\* e, the particle exists afterwards and every other entry is unchanged.
\* load_binnings does this for the entries of the file in turn: the entries
\* up to the first one that is no list are stored, that one raises TypeError.
C12_SetBinningReplaces ==
    [][ncalls' = ncalls + 1 =>
        /\ call'.op = "set_binning" =>
              LET p == call'.particle
                  v == call'.variable
                  e == call'.bin_edges
              IN  IF e.kind # "list"
                  THEN raised' = "TypeError" /\ binnings' = binnings
                  ELSE /\ raised' = ""
                       /\ <<p, v>> \in PairsOf(binnings')
                       /\ binnings'[p][v] = e.items
                       /\ DOMAIN binnings' = DOMAIN binnings \cup {p}
                       /\ SameExcept(binnings, binnings', {<<p, v>>})
        /\ call'.op = "load_binnings" =>
              LET done  == ListPrefix(call'.path)
                  named == {<<done[i].particle, done[i].variable>> : i \in 1..Len(done)}
              IN  /\ raised' = IF Len(done) = Len(call'.path) THEN "" ELSE "TypeError"
                  /\ SameExcept(binnings, binnings', named)
                  /\ \A i \in 1..Len(done) :
                         (\A j \in (i + 1)..Len(done) :
                              <<done[j].particle, done[j].variable>>
                                  # <<done[i].particle, done[i].variable>>)
                             => /\ <<done[i].particle, done[i].variable>> \in PairsOf(binnings')
                                /\ binnings'[done[i].particle][done[i].variable]
                                     = done[i].binning.items]_vars

\* the default P edges of K were replaced by a shorter list, and a float
\* was refused afterwards
C12_Witness ==
    /\ call.op = "set_binning"
    /\ call.bin_edges = AFloat
    /\ raised = "TypeError"
    /\ binnings[<<"K">>]["P"] = <<0, 50>>
    /\ binnings[<<"K">>]["nTracks"] = <<0, 30, 200>>

\* C13: every edge sequence stored in the registry has at least two edges.
C13_StoredEdgesAtLeastTwo ==
    \A pr \in PairsOf(binnings) : Len(binnings[pr[1]][pr[2]]) >= 2

\* the entry of the registry that answers get_binning(particle, variable)
ResolvedEntry(reg, particle, variable) ==
    IF <<particle, variable>> \in PairsOf(reg) THEN <<particle, variable>>
    ELSE <<<<Head(particle)>>, variable>>

\* the entries the warning of the last call lists
ReportedUnused ==
    IF log = <<>> THEN {}
    ELSE {<<log[1].warning[i].particle, log[1].warning[i].bin_var>> :
             i \in 1..Len(log[1].warning)}

\* C21: check_and_load_binnings reports as unused exactly the entries of
\* the binning file whose edges no get_binning query for the requested
\* particle and bin variables returned; an entry that answers a query
\* through the fallback to the particle without suffix counts as used
C21_UnusedOverridesReported ==
    (call.op = "check_and_load_binnings" /\ raised = "") =>
       LET entries == call.path.entries
           used    == {ResolvedEntry(binnings, call.particle, call.bin_vars[i]) :
                          i \in 1..Len(call.bin_vars)}
       IN  ReportedUnused
             = {<<entries[i].particle, entries[i].variable>> : i \in 1..Len(entries)}
                  \ used

----------------------------------------------------------------------------
(* utils.py, pid_data.py, make_eff_hists.py, pklhisto2root.py, ref_calib.py: *)
(* the efficiency artifact files                                            *)

\* A Python string of the model as the sequence of its maximal runs of
\* whitespace and of other characters
Chars(s) ==
    CASE s = "DLLK > 4" -> <<"DLLK", " ", ">", " ", "4">>
      [] s = "DLLK>\t4" -> <<"DLLK>", "\t", "4">>
      [] s = " DLLK>0"  -> <<" ", "DLLK>0">>
      [] OTHER          -> <<s>>

IsWhitespace(c) == c \in {" ", "\t"}

RECURSIVE Join(_, _)
\* sep.join(parts)
Join(parts, sep) ==
    IF parts = <<>> THEN ""
    ELSE IF Len(parts) = 1 THEN parts[1]
    ELSE parts[1] \o sep \o Join(Tail(parts), sep)

\* re.sub(r"\s+", "", s)
re_sub_whitespace(s) ==
    Join(SelectSeq(Chars(s), LAMBDA c : ~IsWhitespace(c)), "")

\* faulty variant of create_hist_filename: the cut is used as it is given
create_hist_filename_KeepWhitespace(sample, magnet, particle, pid_cut, bin_vars) ==
    "effhists-" \o sample \o "-" \o magnet \o "-" \o particle \o "-"
        \o pid_cut \o "-" \o Join(bin_vars, ".") \o ".pkl"

create_hist_filename(sample, magnet, particle, pid_cut, bin_vars) ==
    "effhists-" \o sample \o "-" \o magnet \o "-" \o particle \o "-"
        \o re_sub_whitespace(pid_cut) \o "-" \o Join(bin_vars, ".") \o ".pkl"

\* list(bin_vars) of the dict bin_vars
KeysOf(bin_vars) == [i \in 1..Len(bin_vars) |-> bin_vars[i].var]

\* the five pickle.load calls of get_calib_hists and of pklhisto2root.main on
\* the sequence of objects a file holds
pickle_load5(stream) ==
    [eff           |-> stream[1],
     passing       |-> stream[2],
     total         |-> stream[3],
     passing_sumw2 |-> stream[4],
     total_sumw2   |-> stream[5]]

RECURSIVE GetCalibHistsLoop(_, _, _, _, _, _)
\* the loop of get_calib_hists over ref_pars, a dict {prefix: [particle,
\* PID cut]} given as a sequence of [prefix, particle, pid_cut] in key order;
\* open() raises FileNotFoundError and nothing is returned then
GetCalibHistsLoop(fs, sample, magnet, ref_pars, bin_vars, acc) ==
    IF ref_pars = <<>> THEN [raised |-> "", hists |-> acc]
    ELSE LET ref_par == Head(ref_pars)
             pid_cut == re_sub_whitespace(ref_par.pid_cut)
             calib_name == create_hist_filename(sample, magnet,
                                                Join(ref_par.particle, "_"),
                                                pid_cut, KeysOf(bin_vars))
         IN  IF calib_name \notin DOMAIN fs
             THEN [raised |-> "FileNotFoundError", hists |-> <<>>]
             ELSE GetCalibHistsLoop(fs, sample, magnet, Tail(ref_pars), bin_vars,
                      [p \in DOMAIN acc \cup {ref_par.prefix} |->
                          IF p = ref_par.prefix THEN pickle_load5(fs[calib_name])
                          ELSE acc[p]])

\* faulty variant of get_calib_hists: a prefix whose file is missing is left out
get_calib_hists_SkipMissing(fs, sample, magnet, ref_pars, bin_vars) ==
    GetCalibHistsLoop(fs, sample, magnet,
        SelectSeq(ref_pars, LAMBDA ref_par :
            create_hist_filename(sample, magnet, Join(ref_par.particle, "_"),
                                 ref_par.pid_cut, KeysOf(bin_vars)) \in DOMAIN fs),
        bin_vars, <<>>)

get_calib_hists(fs, sample, magnet, ref_pars, bin_vars) ==
    GetCalibHistsLoop(fs, sample, magnet, ref_pars, bin_vars, <<>>)

RECURSIVE BranchNamesLoop(_, _, _, _)
\* the two nested loops of get_reference_branch_names: i runs over the
\* prefixes, j over the items of bin_vars
BranchNamesLoop(prefixes, bin_vars, k, branch_names) ==
    IF k > Len(prefixes) * Len(bin_vars) THEN branch_names
    ELSE LET i == ((k - 1) \div Len(bin_vars)) + 1
             j == ((k - 1) % Len(bin_vars)) + 1
             branch_name == get_reference_branch_name(prefixes[i], bin_vars[j].var,
                                                      bin_vars[j].branch)
         IN  BranchNamesLoop(prefixes, bin_vars, k + 1,
                 IF branch_name \in SeqRange(branch_names) THEN branch_names
                 ELSE Append(branch_names, branch_name))

\* ref_pars is given by its keys, in key order
get_reference_branch_names(prefixes, bin_vars) ==
    BranchNamesLoop(prefixes, bin_vars, 1, <<>>)

\* list(ref_pars)
PrefixesOf(ref_pars) == [i \in 1..Len(ref_pars) |-> ref_pars[i].prefix]

\* root_to_dataframe: the requested branches of the reference tree
root_to_dataframe(tree, branches) ==
    [columns |-> SeqRange(branches),
     rows |-> [i \in 1..Len(tree.rows) |->
                 [idx |-> tree.rows[i].idx,
                  cols |-> [c \in SeqRange(branches) |-> tree.rows[i].cols[c]]]]]

\* df[[key for key in df.keys() if key not in ref_branches]]
WithoutColumns(df, branches) ==
    [columns |-> df.columns \ SeqRange(branches),
     rows |-> [i \in 1..Len(df.rows) |->
                 [idx |-> df.rows[i].idx,
                  cols |-> [c \in df.columns \ SeqRange(branches) |-> df.rows[i].cols[c]]]]]

RECURSIVE SumX(_)
SumX(xs) == IF xs = <<>> THEN Zero ELSE XAdd(Head(xs), SumX(Tail(xs)))

\* df["PIDCalibEff"].dropna().mean()
MeanEff(df) ==
    LET valid == SelectSeq([i \in 1..Len(df.rows) |-> df.rows[i].cols["PIDCalibEff"]],
                           LAMBDA x : x.k # "nan")
    IN  IF valid = <<>> THEN NaN ELSE XDiv(SumX(valid), FromInt(Len(valid)))

----------------------------------------------------------------------------
(* File run: one run of make_eff_hists, get_calib_hists, ref_calib or       *)
(* pklhisto2root on a histogram directory                                   *)

SampleOf(particle) == IF particle = <<"K">> THEN KCalSample ELSE PiCalSample

\* the objects of the artifact file of (particle, cut, bin_vars), in the
\* order of the file format
ArtifactStream(particle, pid_cut, bin_vars) ==
    LET hs == create_eff_histograms(
                  LocalHists(ModelBinnings, SampleOf(particle), particle, bin_vars,
                             <<pid_cut>>))
    IN  << hs[<<"eff", pid_cut>>], hs[<<"passing", pid_cut>>], hs[<<"total">>],
           hs[<<"passing_sumw2", pid_cut>>], hs[<<"total_sumw2">>] >>

\* the artifact files a histogram directory of the model may hold, each with
\* the particle, the cut and the ordered binning variables it was made for
StoredArtifacts ==
    [name \in {"effhists-Turbo18-up-K-DLLK>4-P.nTracks.pkl",
               "effhists-Turbo18-up-Pi-DLLK>4-P.nTracks.pkl",
               "effhists-Turbo18-up-K-DLLK>4-nTracks.P.pkl",
               "effhists-Turbo18-up-K-DLLK>0-P.nTracks.pkl"} |->
        [particle |-> IF name = "effhists-Turbo18-up-Pi-DLLK>4-P.nTracks.pkl"
                      THEN <<"Pi">> ELSE <<"K">>,
         pid_cut  |-> IF name = "effhists-Turbo18-up-K-DLLK>0-P.nTracks.pkl"
                      THEN "DLLK>0" ELSE "DLLK>4",
         bin_vars |-> IF name = "effhists-Turbo18-up-K-DLLK>4-nTracks.P.pkl"
                      THEN <<"nTracks", "P">> ELSE <<"P", "nTracks">>]]

HistDirs ==
    {[name \in present |->
         ArtifactStream(StoredArtifacts[name].particle, StoredArtifacts[name].pid_cut,
                        StoredArtifacts[name].bin_vars)] :
       present \in SUBSET DOMAIN StoredArtifacts}

Magnets == {"up", "down"}

RefPar(prefix, particle, pid_cut) ==
    [prefix |-> prefix, particle |-> particle, pid_cut |-> pid_cut]

RefParsDicts ==
    { <<RefPar("h1", <<"K">>, "DLLK > 4")>>,
      <<RefPar("h1", <<"K">>, "DLLK>4"), RefPar("h2", <<"Pi">>, "DLLK>\t4")>>,
      <<RefPar("h2", <<"Pi">>, "DLLK>4"), RefPar("h1", <<"K">>, " DLLK>0")>> }

RefRow(idx, pt) ==
    [idx |-> idx,
     cols |-> [c \in RefColumns |->
                 FromInt(IF c = "h1_P" THEN pt[1] ELSE IF c = "h2_P" THEN pt[2] ELSE pt[3])]]

\* the reference trees of the file run: no event; an event in range and
\* one with h1_P on the last edge of K; two events in range, read with a
\* descending index
RefTrees ==
    { [columns |-> RefColumns, rows |-> <<>>],
      [columns |-> RefColumns,
       rows |-> <<RefRow(0, <<100, 0, 40>>), RefRow(1, <<300, 0, 60>>)>>],
      [columns |-> RefColumns,
       rows |-> <<RefRow(1, <<250, 0, 40>>), RefRow(0, <<100, 0, 60>>)>>] }

InitFiles ==
    /\ pc = "files"
    /\ binnings = ModelBinnings
    /\ df_cal = <<>>
    /\ hists = <<>>
    /\ err_hist = NoHist
    /\ eff_hists = <<>>
    /\ df_ref = NoFrame
    /\ df_idx = NoFrame
    /\ df_eff = NoFrame
    /\ raised = ""
    /\ call = NoCall
    /\ ret = <<>>
    /\ files \in HistDirs
    /\ log = <<>>
    /\ ncalls = 0

\* make_eff_hists: the whitespace of the cuts is removed, every binning
\* is looked up, the events are read, and then line 299 calls
\* utils.create_eff_histograms with four arguments (TypeError: it takes the
\* dict of histograms only) or, without a local DataFrame, line 275 reads
\* pid_data.calib_root_to_dataframe, which pid_data does not define
\* (AttributeError); lines 303-321 are never reached
MakeEffHists ==
    /\ pc = "files"
    /\ \E particle \in {<<"K">>, <<"Pi">>, <<"Mu">>},
          pid_cuts \in {<<"DLLK > 4">>, <<"DLLK>0", "DLLK>4">>},
          bin_vars \in {<<"P", "nTracks">>, <<"nTracks", "P">>},
          magnet \in Magnets, local_dataframe \in BOOLEAN :
          /\ call' = [call EXCEPT !.op = "make_eff_hists", !.particle = particle,
                         !.pid_cuts = [i \in 1..Len(pid_cuts) |->
                                          re_sub_whitespace(pid_cuts[i])],
                         !.bin_vars = bin_vars, !.magnet = magnet,
                         !.local_dataframe = local_dataframe]
          /\ raised' = IF \E i \in 1..Len(bin_vars) :
                              ~get_binning(binnings, particle, bin_vars[i]).ok
                       THEN "KeyError"
                       ELSE IF local_dataframe THEN "TypeError"
                       ELSE "AttributeError"
    /\ pc' = "ran"
    /\ UNCHANGED <<binnings, df_cal, hists, err_hist, eff_hists, df_ref, df_idx, df_eff>>
    /\ UNCHANGED ioVars

GetCalibHists ==
    /\ pc = "files"
    /\ \E magnet \in Magnets, ref_pars \in RefParsDicts, bin_vars \in BinVarDicts :
          LET r == get_calib_hists(files, "Turbo18", magnet, ref_pars, bin_vars)
          IN  /\ call' = [call EXCEPT !.op = "get_calib_hists", !.magnet = magnet,
                                      !.ref_pars = ref_pars, !.bin_vars = bin_vars]
              /\ raised' = r.raised
              /\ ret' = r.hists
    /\ pc' = "ran"
    /\ UNCHANGED <<binnings, df_cal, hists, err_hist, eff_hists, df_ref, df_idx, df_eff,
                   files, log, ncalls>>

\* ref_calib (lines 203-243); output_file is "ref_PID_eff.root", the
\* reference file "ref.root"
RefCalib ==
    /\ pc = "files"
    /\ \E magnet \in Magnets, ref_pars \in RefParsDicts, bin_vars \in BinVarDicts,
          tree \in RefTrees, merge \in BOOLEAN, compatibility \in BOOLEAN :
       \E ref_branches \in {get_reference_branch_names(PrefixesOf(ref_pars), bin_vars)} :
       \E loaded \in {root_to_dataframe(tree, ref_branches)} :
       \E r \in {get_calib_hists(files, "Turbo18", magnet, ref_pars, bin_vars)} :
          /\ call' = [call EXCEPT !.op = "ref_calib", !.magnet = magnet,
                                  !.ref_pars = ref_pars, !.bin_vars = bin_vars,
                                  !.prefixes = PrefixesOf(ref_pars),
                                  !.compatibility = compatibility]
          /\ df_ref' = loaded
          /\ IF r.raised # ""
             THEN /\ raised' = r.raised
                  /\ UNCHANGED <<eff_hists, df_idx, df_eff, files, ret, log>>
             ELSE \E indexed \in {add_bin_indices(loaded, PrefixesOf(ref_pars),
                                                  bin_vars, r.hists)} :
                  /\ eff_hists' = EffHistsAfter(r.hists, PrefixesOf(ref_pars), FALSE)
                  /\ df_idx' = indexed
                  /\ IF Len(indexed.rows) = 0
                     THEN /\ raised' = "ZeroDivisionError"
                          /\ UNCHANGED <<df_eff, files, ret, log>>
                     ELSE \E scored \in {add_efficiencies(indexed, PrefixesOf(ref_pars),
                                                          r.hists, FALSE)} :
                          \E output \in {[tree |-> "PIDCalibTree",
                                          frame |-> WithoutColumns(scored, ref_branches)]} :
                          /\ raised' = ""
                          /\ df_eff' = scored
                          /\ log' = <<OutOfRangeReport(indexed, PrefixesOf(ref_pars),
                                                       r.hists, FALSE)>>
                          /\ ret' = MeanEff(scored)
                          /\ files' =
                               [n \in DOMAIN files \cup {"ref_PID_eff.root"}
                                      \cup (IF merge THEN {"ref.root"} ELSE {}) |->
                                   IF n \in {"ref_PID_eff.root", "ref.root"}
                                   THEN output ELSE files[n]]
    /\ pc' = "ran"
    /\ UNCHANGED <<binnings, df_cal, hists, err_hist, ncalls>>

\* pklhisto2root.main on the path of an artifact: the five histograms and
\* the error histogram, written as eff_histo (with the errors),
\* passing_histo and total_histo to the path with the suffix .root
PklHisto2Root ==
    /\ pc = "files"
    /\ \E pkl_path \in DOMAIN StoredArtifacts :
          /\ call' = [call EXCEPT !.op = "pklhisto2root", !.path = pkl_path]
          /\ IF pkl_path \notin DOMAIN files
             THEN /\ raised' = "FileNotFoundError"
                  /\ UNCHANGED <<ret, files>>
             ELSE LET five == pickle_load5(files[pkl_path])
                      eff_histos == [name \in {"eff", "passing", "total", "passing_sumw2",
                                               "total_sumw2", "error"} |->
                                        IF name = "error" THEN create_error_histogram(five)
                                        ELSE five[name]]
                      a == StoredArtifacts[pkl_path]
                      root_path == "effhists-Turbo18-up-" \o Join(a.particle, "_") \o "-"
                                       \o a.pid_cut \o "-" \o Join(a.bin_vars, ".")
                                       \o ".root"
                  IN  /\ raised' = ""
                      /\ ret' = eff_histos
                      /\ files' = [n \in DOMAIN files \cup {root_path} |->
                                     IF n = root_path
                                     THEN <<eff_histos.eff, eff_histos.error,
                                            eff_histos.passing, eff_histos.total>>
                                     ELSE files[n]]
    /\ pc' = "ran"
    /\ UNCHANGED <<binnings, df_cal, hists, err_hist, eff_hists, df_ref, df_idx, df_eff,
                   log, ncalls>>

CutSpellings == {"DLLK>4", "DLLK > 4", "DLLK>\t4", "DLLK>0", " DLLK>0"}

BinVarLists == {<<"P">>, <<"P", "nTracks">>, <<"nTracks", "P">>}

\* a call of utils.create_hist_filename
CreateHistFilename ==
    /\ pc = "files"
    /\ \E magnet \in Magnets, particle \in {<<"K">>, <<"Pi">>, <<"K", "DsPhi">>},
          pid_cut \in CutSpellings, bin_vars \in BinVarLists :
          /\ call' = [call EXCEPT !.op = "create_hist_filename", !.magnet = magnet,
                                  !.particle = particle, !.cut = pid_cut,
                                  !.bin_vars = bin_vars]
          /\ ret' = create_hist_filename("Turbo18", magnet, Join(particle, "_"),
                                         pid_cut, bin_vars)
    /\ pc' = "ran"
    /\ UNCHANGED <<binnings, df_cal, hists, err_hist, eff_hists, df_ref, df_idx, df_eff,
                   raised, files, log, ncalls>>

\* the name make_eff_hists derives for one of its cuts: line 215 removes the
\* whitespace of the cut, lines 303-311 pass it on with the configuration
WriterName(magnet, particle, pid_cut, bin_vars) ==
    create_hist_filename("Turbo18", magnet, Join(particle, "_"),
                         re_sub_whitespace(pid_cut), bin_vars)

NextFiles ==
    MakeEffHists \/ GetCalibHists \/ RefCalib \/ PklHisto2Root \/ CreateHistFilename

SpecFiles == InitFiles /\ [][NextFiles]_vars

----------------------------------------------------------------------------
(* Properties of the file run *)

\* the name the reader derives for one entry of ref_pars
ReaderName(magnet, ref_par, bin_vars) ==
    create_hist_filename("Turbo18", magnet, Join(ref_par.particle, "_"),
                         re_sub_whitespace(ref_par.pid_cut), KeysOf(bin_vars))

\* C14: make_eff_hists writes, for every cut, the five histograms eff,
\* passing, total, passing_sumw2, total_sumw2 to the artifact file in this
\* order, and get_calib_hists and pklhisto2root.main bind these five names to
\* the objects of the file in the same order.
C14_FiveInOrder ==
    /\ (call.op = "make_eff_hists" /\ call.particle \in DOMAIN binnings) =>
          /\ raised = ""
          /\ \A cut \in SeqRange(call.pid_cuts) :
                LET name == create_hist_filename("Turbo18", call.magnet,
                                                 Join(call.particle, "_"), cut,
                                                 call.bin_vars)
                IN  name \in DOMAIN files /\ Len(files[name]) = 5
    /\ (call.op = "get_calib_hists" /\ raised = "") =>
          \A i \in 1..Len(call.ref_pars) :
             LET stream == files[ReaderName(call.magnet, call.ref_pars[i], call.bin_vars)]
                 loaded == ret[call.ref_pars[i].prefix]
             IN  /\ loaded.eff = stream[1] /\ loaded.passing = stream[2]
                 /\ loaded.total = stream[3] /\ loaded.passing_sumw2 = stream[4]
                 /\ loaded.total_sumw2 = stream[5]
    /\ (call.op = "pklhisto2root" /\ raised = "") =>
          LET stream == files[call.path]
          IN  /\ ret.eff = stream[1] /\ ret.passing = stream[2]
              /\ ret.total = stream[3] /\ ret.passing_sumw2 = stream[4]
              /\ ret.total_sumw2 = stream[5]

\* the spelling of a cut of the model without its whitespace
CanonicalCut(pid_cut) ==
    IF pid_cut \in {"DLLK>4", "DLLK > 4", "DLLK>\t4"} THEN "DLLK>4" ELSE "DLLK>0"

\* the binning variables of the model joined by "."
DottedVars(bin_vars) ==
    IF bin_vars = <<"P">> THEN "P"
    ELSE IF bin_vars = <<"P", "nTracks">> THEN "P.nTracks" ELSE "nTracks.P"

ParticleText(particle) ==
    IF particle = <<"K">> THEN "K" ELSE IF particle = <<"Pi">> THEN "Pi" ELSE "K_DsPhi"

ExpectedName(magnet, particle, pid_cut, bin_vars) ==
    "effhists-Turbo18-" \o magnet \o "-" \o ParticleText(particle) \o "-"
        \o CanonicalCut(pid_cut) \o "-" \o DottedVars(bin_vars) \o ".pkl"

\* C15: create_hist_filename returns
\* effhists-{sample}-{magnet}-{particle}-{cut}-{variables joined by "."}.pkl
\* with the whitespace of the cut removed, so cuts that differ only in
\* whitespace give one name and another order of the variables gives another
\* name; make_eff_hists and get_calib_hists derive this same name, so the
\* reader finds exactly the artifact stored for its particle, cut and ordered
\* variables.
C15_HistFileName ==
    /\ call.op = "create_hist_filename" =>
          /\ ret = ExpectedName(call.magnet, call.particle, call.cut, call.bin_vars)
          /\ \A pid_cut \in CutSpellings :
                (CanonicalCut(pid_cut) = CanonicalCut(call.cut)) <=>
                   (create_hist_filename("Turbo18", call.magnet,
                                         Join(call.particle, "_"), pid_cut,
                                         call.bin_vars) = ret)
          /\ \A bin_vars \in BinVarLists :
                bin_vars # call.bin_vars =>
                   create_hist_filename("Turbo18", call.magnet,
                                        Join(call.particle, "_"), call.cut,
                                        bin_vars) # ret
          /\ WriterName(call.magnet, call.particle, call.cut, call.bin_vars) = ret
          /\ ReaderName(call.magnet, RefPar("h1", call.particle, call.cut),
                        [i \in 1..Len(call.bin_vars) |->
                            [var |-> call.bin_vars[i], branch |-> "x"]]) = ret
    /\ \A name \in DOMAIN StoredArtifacts :
          LET a == StoredArtifacts[name]
          IN  \A pid_cut \in CutSpellings :
                 CanonicalCut(pid_cut) = a.pid_cut =>
                    WriterName("up", a.particle, pid_cut, a.bin_vars) = name
    /\ call.op = "get_calib_hists" =>
          LET Stored(ref_par) ==
                 {name \in DOMAIN files \cap DOMAIN StoredArtifacts :
                     /\ call.magnet = "up"
                     /\ StoredArtifacts[name].particle = ref_par.particle
                     /\ StoredArtifacts[name].pid_cut = CanonicalCut(ref_par.pid_cut)
                     /\ StoredArtifacts[name].bin_vars = KeysOf(call.bin_vars)}
          IN  /\ (raised = "") <=>
                    \A i \in 1..Len(call.ref_pars) : Stored(call.ref_pars[i]) # {}
              /\ raised = "" =>
                    \A i \in 1..Len(call.ref_pars) :
                       \E name \in Stored(call.ref_pars[i]) :
                          ret[call.ref_pars[i].prefix] = pickle_load5(files[name])

C15_Witness ==
    /\ call.op = "create_hist_filename"
    /\ call.cut = "DLLK > 4"
    /\ call.bin_vars = <<"nTracks", "P">>
    /\ ret = "effhists-Turbo18-down-K_DsPhi-DLLK>4-nTracks.P.pkl"

\* the artifact file of entry i of the ref_pars of the last call is on disk
ArtifactPresent(i) ==
    ExpectedName(call.magnet, call.ref_pars[i].particle, call.ref_pars[i].pid_cut,
                 KeysOf(call.bin_vars)) \in DOMAIN files

\* C17: when the artifact file of any prefix is missing, get_calib_hists
\* raises FileNotFoundError and returns nothing, and ref_calib ends with this
\* exception without having assigned a bin index or an efficiency and
\* without having written the output file.
C17_MissingArtifactFailsFast ==
    LET Missing == \E i \in 1..Len(call.ref_pars) : ~ArtifactPresent(i)
    IN  /\ (call.op = "get_calib_hists" /\ Missing) =>
              raised = "FileNotFoundError" /\ ret = <<>>
        /\ (call.op = "ref_calib" /\ Missing) =>
              /\ raised = "FileNotFoundError"
              /\ eff_hists = <<>> /\ ret = <<>>
              /\ df_idx = NoFrame /\ df_eff = NoFrame
              /\ "ref_PID_eff.root" \notin DOMAIN files
              /\ "ref.root" \notin DOMAIN files

C17_Witness ==
    /\ call.op = "ref_calib"
    /\ Len(call.ref_pars) = 2
    /\ ArtifactPresent(1) /\ ~ArtifactPresent(2)
    /\ Len(df_ref.rows) = 2
    /\ raised = "FileNotFoundError"
    /\ df_idx = NoFrame

\* C28: when ref_calib runs with the compatibility option set, the option
\* reaches add_efficiencies: the table it wrote is the one add_efficiencies
\* gives with that option, every row that has the flat index of every prefix
\* has an efficiency (zero where the bin's efficiency is undefined), and the
\* returned average is taken over these rows; without the option the rows of
\* undefined bins keep NaN and are left out of the average.
C28_CompatibilityReachesAddEfficiencies ==
    (pc = "ran" /\ call.op = "ref_calib" /\ raised = "") =>
        /\ df_eff = add_efficiencies(df_idx, call.prefixes, eff_hists, call.compatibility)
        /\ ret = MeanEff(df_eff)
        /\ call.compatibility =>
               \A i \in 1..Len(df_eff.rows) :
                   (\A p \in SeqRange(call.prefixes) :
                        df_eff.rows[i].cols[p \o "_PIDCalibBin"].k = "fin")
                       => df_eff.rows[i].cols["PIDCalibEff"].k = "fin"

----------------------------------------------------------------------------
(* pid_data.py: the names of the branches to read *)

\* pid_data.aliases, the entries the model uses
aliases ==
    [a \in {"DLLK", "DLLp", "P", "ETA", "nTracks", "nSPDhits"} |->
        CASE a = "DLLK" -> "probe_PIDK"
          [] a = "DLLp" -> "probe_PIDp"
          [] a = "P"    -> "probe_P"
          [] a = "ETA"  -> "probe_ETA"
          [] OTHER      -> a]

\* re.split(r"<|>|==|!=|\(|\)|\*|/|\+|-|\^|&", expression) for the
\* expressions of the model, which are free of whitespace
SplitExpression(expression) ==
    CASE expression = "DLLK>4"        -> <<"DLLK", "4">>
      [] expression = "DLLK>0"        -> <<"DLLK", "0">>
      [] expression = "probe_PIDK<10" -> <<"probe_PIDK", "10">>
      [] expression = "test_DLL!=4"   -> <<"test_DLL", "4">>
      [] expression = "(P>0)"         -> <<"", "P", "0", "">>
      [] expression = "probe_P>0"     -> <<"probe_P", "0">>
      [] OTHER                        -> <<expression>>

is_float(entity) == entity \in {"0", "4", "10"}

extract_variable_names(expression) ==
    SelectSeq(SplitExpression(expression), LAMBDA part : ~is_float(part) /\ part # "")

\* A dict is the sequence of its items [key, value] in insertion order.
\* d[key] = value
DictSet(d, key, value) ==
    IF \E i \in 1..Len(d) : d[i].key = key
    THEN [i \in 1..Len(d) |-> IF d[i].key = key THEN [key |-> key, value |-> value]
                              ELSE d[i]]
    ELSE Append(d, [key |-> key, value |-> value])

RECURSIVE AddBranches(_, _, _)
\* the body of the three loops of get_relevant_branch_names for a list of
\* variable names: the branch of the alias, or the name itself with a
\* warning; st is [branch_names, warnings]
AddBranches(st, names, what) ==
    IF names = <<>> THEN st
    ELSE LET name == Head(names)
         IN  AddBranches(
                 IF name \notin DOMAIN aliases
                 THEN [branch_names |-> DictSet(st.branch_names, name, name),
                       warnings |-> Append(st.warnings, <<what, name>>)]
                 ELSE [branch_names |-> DictSet(st.branch_names, name, aliases[name]),
                       warnings |-> st.warnings],
                 Tail(names), what)

RECURSIVE AddCutBranches(_, _, _)
\* the loops over pid_cuts and over cuts
AddCutBranches(st, cut_list, what) ==
    IF cut_list = <<>> THEN st
    ELSE AddCutBranches(
             AddBranches(st, extract_variable_names(re_sub_whitespace(Head(cut_list))),
                         what),
             Tail(cut_list), what)

\* get_relevant_branch_names; cuts = None is the empty list. The result is
\* [branch_names, warnings]: the function has no raise statement
get_relevant_branch_names(pid_cuts, bin_vars, cuts) ==
    LET st0 == [branch_names |-> <<[key |-> "sWeight", value |-> "probe_sWeight"]>>,
                warnings |-> <<>>]
        st1 == AddCutBranches(st0, pid_cuts, "PID cut variable")
        st2 == AddBranches(st1, bin_vars, "Binning variable")
    IN  AddCutBranches(st2, cuts, "Cut variable")

----------------------------------------------------------------------------
(* Branch-name run: one call of get_relevant_branch_names,                  *)
(* get_reference_branch_name or get_reference_branch_names                  *)

MaxCutList == 2

PidCutSet == {"DLLK > 4", "DLLK>0", "probe_PIDK<10", "test_DLL!=4"}

CalibBinVars == {<<"P">>, <<"P", "nTracks">>, <<"probe_P", "P">>}

UserCuts == {<<>>, <<"(P>0)">>, <<"probe_PIDK<10">>, <<"probe_P>0">>}

BinVar(var, branch) == [var |-> var, branch |-> branch]

\* dicts {variable: branch in the reference sample}
RefBinVarDicts ==
    { <<BinVar("P", "P"), BinVar("nTracks", "nTracks")>>,
      <<BinVar("nTracks", "ntr"), BinVar("P", "mom")>>,
      <<BinVar("P", "nTracks"), BinVar("nSPDhits", "nTracks")>>,
      <<BinVar("nTracks_Brunel", "ntr"), BinVar("nSPDhits_Brunel", "ntr"),
        BinVar("ETA", "P")>> }

InitBranches ==
    /\ pc = "branches"
    /\ binnings = ModelBinnings
    /\ df_cal = <<>>
    /\ hists = <<>>
    /\ err_hist = NoHist
    /\ eff_hists = <<>>
    /\ df_ref = NoFrame
    /\ df_idx = NoFrame
    /\ df_eff = NoFrame
    /\ raised = ""
    /\ call = NoCall
    /\ ret = <<>>
    /\ files = <<>>
    /\ log = <<>>
    /\ ncalls = 0

GetRelevantBranchNames ==
    /\ pc = "branches"
    /\ \E pid_cuts \in SeqsUpTo(PidCutSet, MaxCutList), bin_vars \in CalibBinVars,
          cuts \in UserCuts :
          LET r == get_relevant_branch_names(pid_cuts, bin_vars, cuts)
          IN  /\ call' = [call EXCEPT !.op = "get_relevant_branch_names",
                                      !.pid_cuts = pid_cuts, !.bin_vars = bin_vars,
                                      !.path = cuts]
              /\ ret' = r.branch_names
              /\ log' = r.warnings
    /\ pc' = "ran"
    /\ UNCHANGED <<binnings, df_cal, hists, err_hist, eff_hists, df_ref, df_idx, df_eff,
                   raised, files, ncalls>>

GetReferenceBranchName ==
    /\ pc = "branches"
    /\ \E prefix \in {"h1", "h2"}, bin_vars \in RefBinVarDicts :
          \E i \in 1..Len(bin_vars) :
             /\ call' = [call EXCEPT !.op = "get_reference_branch_name",
                                     !.prefixes = <<prefix>>,
                                     !.bin_vars = <<bin_vars[i]>>]
             /\ ret' = get_reference_branch_name(prefix, bin_vars[i].var,
                                                 bin_vars[i].branch)
    /\ pc' = "ran"
    /\ UNCHANGED <<binnings, df_cal, hists, err_hist, eff_hists, df_ref, df_idx, df_eff,
                   raised, files, log, ncalls>>

GetReferenceBranchNames ==
    /\ pc = "branches"
    /\ \E prefixes \in PrefixLists, bin_vars \in RefBinVarDicts :
          /\ call' = [call EXCEPT !.op = "get_reference_branch_names",
                                  !.prefixes = prefixes, !.bin_vars = bin_vars]
          /\ ret' = get_reference_branch_names(prefixes, bin_vars)
    /\ pc' = "ran"
    /\ UNCHANGED <<binnings, df_cal, hists, err_hist, eff_hists, df_ref, df_idx, df_eff,
                   raised, files, log, ncalls>>

NextBranches ==
    GetRelevantBranchNames \/ GetReferenceBranchName \/ GetReferenceBranchNames

SpecBranches == InitBranches /\ [][NextBranches]_vars

----------------------------------------------------------------------------
(* Properties of the branch-name run *)

\* the variable names a call of get_relevant_branch_names was given
NamedVariables ==
    UNION {SeqRange(extract_variable_names(re_sub_whitespace(call.pid_cuts[i]))) :
              i \in 1..Len(call.pid_cuts)}
    \cup SeqRange(call.bin_vars)
    \cup UNION {SeqRange(extract_variable_names(re_sub_whitespace(call.path[i]))) :
                   i \in 1..Len(call.path)}

\* the raw columns named both by an alias and by their own name
DuplicateColumns ==
    {aliases[a] : a \in {b \in DOMAIN aliases \cap NamedVariables :
                            aliases[b] # b /\ aliases[b] \in NamedVariables}}

\* C18: when the PID cuts, binning variables and cuts name one quantity both
\* by an alias and by its raw column, get_relevant_branch_names fails with a
\* KeyError that lists the duplicates.
C18_AliasAndRawNameFail ==
    (call.op = "get_relevant_branch_names" /\ DuplicateColumns # {}) =>
        /\ raised = "KeyError"
        /\ \A column \in DuplicateColumns :
              \E i \in 1..Len(log) : column \in SeqRange(log[i])

\* the branch of a particle of the model, written out
PrefixedName(prefix, branch) ==
    IF prefix = "h1"
    THEN CASE branch = "P" -> "h1_P" [] branch = "nTracks" -> "h1_nTracks"
           [] branch = "ntr" -> "h1_ntr" [] OTHER -> "h1_mom"
    ELSE CASE branch = "P" -> "h2_P" [] branch = "nTracks" -> "h2_nTracks"
           [] branch = "ntr" -> "h2_ntr" [] OTHER -> "h2_mom"

\* the name the claim gives for a prefix and an item of bin_vars
ClaimedName(prefix, item) ==
    IF item.var \in {"nTracks", "nTracks_Brunel", "nSPDhits", "nSPDhits_Brunel"}
    THEN item.branch
    ELSE PrefixedName(prefix, item.branch)

\* the names of all prefixes and variables, prefix by prefix
AllNames(prefixes, bin_vars) ==
    [k \in 1..(Len(prefixes) * Len(bin_vars)) |->
        ClaimedName(prefixes[((k - 1) \div Len(bin_vars)) + 1],
                    bin_vars[((k - 1) % Len(bin_vars)) + 1])]

FirstOccurrence(names, x) ==
    CHOOSE k \in 1..Len(names) : names[k] = x /\ \A j \in 1..(k - 1) : names[j] # x

\* C19: get_reference_branch_name returns the branch without prefix exactly
\* when the variable (not the branch) is nTracks, nTracks_Brunel, nSPDhits or
\* nSPDhits_Brunel, and prefix_branch otherwise; get_reference_branch_names
\* returns each of these names of all prefixes and variables once, in the
\* order of their first occurrence.
C19_ReferenceBranchNames ==
    /\ call.op = "get_reference_branch_name" =>
          ret = ClaimedName(call.prefixes[1], call.bin_vars[1])
    /\ call.op = "get_reference_branch_names" =>
          LET names == AllNames(call.prefixes, call.bin_vars)
          IN  /\ SeqRange(ret) = SeqRange(names)
              /\ \A i, j \in 1..Len(ret) : i # j => ret[i] # ret[j]
              /\ \A i, j \in 1..Len(ret) :
                    i < j => FirstOccurrence(names, ret[i]) < FirstOccurrence(names, ret[j])

C19_Witness ==
    /\ call.op = "get_reference_branch_names"
    /\ call.prefixes = <<"h1", "h2">>
    /\ call.bin_vars = <<BinVar("P", "nTracks"), BinVar("nSPDhits", "nTracks")>>
    /\ ret = <<"h1_nTracks", "nTracks", "h2_nTracks">>

----------------------------------------------------------------------------
(* utils.py: create_histograms over the calibration files, and add_hists *)

\* df.query(" and ".join(cuts)) for cuts of the model's PID-cut strings
KeepsAll(cuts, r) == \A i \in 1..Len(cuts) : PassesCut(cuts[i], r)

\* lines 421-426: one cut "var > first edge and var < last edge" for every
\* bin variable, as [var, low, high]
BinningRangeCuts(reg, particle, bin_vars) ==
    [i \in 1..Len(bin_vars) |->
        LET bin_edges == get_binning(reg, particle, bin_vars[i]).edges
        IN  [var |-> bin_vars[i], low |-> bin_edges[1], high |-> bin_edges[Len(bin_edges)]]]

\* the query of the binning range cuts: both comparisons are strict
InBinningRangeCuts(binning_range_cuts, r) ==
    \A i \in 1..Len(binning_range_cuts) :
       /\ r[binning_range_cuts[i].var] > binning_range_cuts[i].low
       /\ r[binning_range_cuts[i].var] < binning_range_cuts[i].high

\* apply_cuts with the rows the query keeps: the counts before and after;
\* the message of lines 309-311 divides by num_before (ZeroDivisionError
\* for a table without rows)
apply_cuts(df, kept) ==
    [raised |-> IF Len(df) = 0 THEN "ZeroDivisionError" ELSE "",
     df |-> kept, num_before |-> Len(df), num_after |-> Len(kept)]

\* faulty variant of AddCutStat: the counts are overwritten, not added to
AddCutStat_Overwrite(cut_stats, key, num_before, num_after) ==
    [k \in DOMAIN cut_stats \cup {key} |->
        IF k # key THEN cut_stats[k] ELSE [before |-> num_before, after |-> num_after]]

\* cut_stats[key]["before"] += num_before; cut_stats[key]["after"] += num_after,
\* for a new key after cut_stats[key] = {"before": 0, "after": 0}
AddCutStat(cut_stats, key, num_before, num_after) ==
    [k \in DOMAIN cut_stats \cup {key} |->
        IF k # key THEN cut_stats[k]
        ELSE LET old == IF k \in DOMAIN cut_stats THEN cut_stats[k]
                        ELSE [before |-> 0, after |-> 0]
             IN  [before |-> old.before + num_before, after |-> old.after + num_after]]

\* apply_all_cuts: the binning range cuts, then the hard-coded and the
\* user cuts when their list is not empty; an exception of apply_cuts ends
\* the call before the counts of that stage are added
apply_all_cuts(df, cut_stats, binning_range_cuts, hardcoded_cuts, user_cuts) ==
    LET a1 == apply_cuts(df, SelectSeq(df, LAMBDA r :
                                InBinningRangeCuts(binning_range_cuts, r)))
        s1 == AddCutStat(cut_stats, "binning range", a1.num_before, a1.num_after)
        a2 == apply_cuts(a1.df, SelectSeq(a1.df, LAMBDA r : KeepsAll(hardcoded_cuts, r)))
        d2 == IF hardcoded_cuts # <<>> THEN a2.df ELSE a1.df
        s2 == IF hardcoded_cuts # <<>>
              THEN AddCutStat(s1, "hard-coded", a2.num_before, a2.num_after) ELSE s1
        a3 == apply_cuts(d2, SelectSeq(d2, LAMBDA r : KeepsAll(user_cuts, r)))
        d3 == IF user_cuts # <<>> THEN a3.df ELSE d2
        s3 == IF user_cuts # <<>>
              THEN AddCutStat(s2, "user", a3.num_before, a3.num_after) ELSE s2
    IN  IF a1.raised # "" THEN [raised |-> a1.raised, df |-> a1.df, cut_stats |-> cut_stats]
        ELSE IF hardcoded_cuts # <<>> /\ a2.raised # ""
        THEN [raised |-> a2.raised, df |-> a2.df, cut_stats |-> s1]
        ELSE IF user_cuts # <<>> /\ a3.raised # ""
        THEN [raised |-> a3.raised, df |-> a3.df, cut_stats |-> s2]
        ELSE [raised |-> "", df |-> d3, cut_stats |-> s3]

RECURSIVE PassingStats(_, _, _)
\* lines 543-546 of create_passing_histograms for every PID cut of the list:
\* the key is the cut between single quotes
PassingStats(df, cut_stats, pid_cuts) ==
    IF pid_cuts = <<>> THEN cut_stats
    ELSE PassingStats(df,
                      AddCutStat(cut_stats, "'" \o Head(pid_cuts) \o "'",
                                 Len(df), Len(Query(df, Head(pid_cuts)))),
                      Tail(pid_cuts))

\* an optional list of cuts: not given (None, or no "cuts" key), or a list
NoCuts == [given |-> FALSE, items |-> <<>>]

SomeCuts(items) == [given |-> TRUE, items |-> items]

\* config["cuts"] after lines 405-409: a list given by the user is extended
\* in place by the hard-coded cuts of the sample
ConfigCutsAfter(user, hardcoded) ==
    IF user.given /\ hardcoded.given THEN user.items \o hardcoded.items ELSE user.items

RECURSIVE CreateHistogramsLoop(_, _, _, _, _)
\* the loop of lines 434-466 over the files from the k-th on: a file that
\* could not be read (None) is skipped; st is [raised, cut_stats, all_hists]
CreateHistogramsLoop(reg, fs, k, config, st) ==
    IF k > Len(fs) \/ st.raised # "" THEN st
    ELSE IF ~fs[k].readable THEN CreateHistogramsLoop(reg, fs, k + 1, config, st)
    ELSE LET cut == apply_all_cuts(
                       fs[k].rows, st.cut_stats,
                       BinningRangeCuts(reg, config.particle, config.bin_vars),
                       config.hardcoded.items,
                       ConfigCutsAfter(config.cuts, config.hardcoded))
             hs  == LocalHists(reg, cut.df, config.particle, config.bin_vars,
                               config.pid_cuts)
         IN  IF cut.raised # ""
             THEN [st EXCEPT !.raised = cut.raised, !.cut_stats = cut.cut_stats]
             ELSE CreateHistogramsLoop(
                     reg, fs, k + 1, config,
                     [raised |-> "",
                      cut_stats |-> PassingStats(cut.df, cut.cut_stats, config.pid_cuts),
                      all_hists |-> Append(st.all_hists, [path |-> k, hists |-> hs])])

\* create_histograms: [raised, cut_stats, all_hists], all_hists being the
\* list of the items (path, hists) of the returned dict
create_histograms(reg, fs, config) ==
    CreateHistogramsLoop(
        reg, fs, 1, config,
        [raised |-> "",
         cut_stats |-> [k \in {"binning range", "hard-coded", "user"} |->
                          [before |-> 0, after |-> 0]],
         all_hists |-> <<>>])

\* faulty variant of HistAdd: the cells are overwritten, not added to
HistAdd_Overwrite(a, b) == [a EXCEPT !.cells = b.cells]

\* a += b of two histograms: every cell, flow cells included
HistAdd(a, b) ==
    [a EXCEPT !.cells = [c \in DOMAIN a.cells |-> XAdd(a.cells[c], b.cells[c])]]

RECURSIVE AddHistsLoop(_, _)
\* lines 381-383: the histograms of every further dict are added in place
\* to those of total_hists
AddHistsLoop(total_hists, rest) ==
    IF rest = <<>> THEN total_hists
    ELSE AddHistsLoop([name \in DOMAIN total_hists |->
                          HistAdd(total_hists[name], Head(rest)[name])],
                      Tail(rest))

\* faulty variant of add_hists: every dictionary of the list ends up as the
\* sum, as if the list held one dictionary several times
add_hists_SumsEverywhere(all_hists) ==
    IF all_hists = <<>> THEN [raised |-> "IndexError", all_hists |-> all_hists]
    ELSE [raised |-> "",
          all_hists |-> [i \in 1..Len(all_hists) |->
                            AddHistsLoop(Head(all_hists), Tail(all_hists))]]

\* add_hists: total_hists is all_hists[0] itself (IndexError for an empty
\* list); the result is the exception and the list as the call leaves it,
\* whose first dict is the one returned
add_hists(all_hists) ==
    IF all_hists = <<>> THEN [raised |-> "IndexError", all_hists |-> all_hists]
    ELSE [raised |-> "",
          all_hists |-> <<AddHistsLoop(Head(all_hists), Tail(all_hists))>>
                            \o Tail(all_hists)]

----------------------------------------------------------------------------
(* File-loop run: create_histograms, add_hists, create_eff_histograms twice *)

MaxFiles == 2

LoopRow(p, n, dllk, w) == [P |-> p, nTracks |-> n, DLLK |-> dllk, sWeight |-> w]

\* contents of a calibration file: not readable; no event; events on the
\* first edge of P and inside; inside and on the last edge of P; below the
\* range of P; on the last edge of nTracks and inside
FileContents ==
    { [readable |-> FALSE, rows |-> <<>>],
      [readable |-> TRUE, rows |-> <<>>],
      [readable |-> TRUE, rows |-> <<LoopRow(0, 10, 5, 1), LoopRow(100, 10, 5, 2)>>],
      [readable |-> TRUE, rows |-> <<LoopRow(100, 10, 2, 1), LoopRow(300, 10, 5, 1)>>],
      [readable |-> TRUE, rows |-> <<LoopRow(-10, 10, 5, 1)>>],
      [readable |-> TRUE, rows |-> <<LoopRow(150, 200, 5, 1), LoopRow(250, 10, 5, -1)>>] }

LoopPidCuts == {<<"DLLK>4">>, <<"DLLK>0", "DLLK>4">>, <<"DLLK>4", "DLLK>4">>}

LoopCuts == {NoCuts, SomeCuts(<<"DLLK>0">>)}

InitLoop ==
    /\ pc = "loop"
    /\ binnings = ModelBinnings
    /\ df_cal = <<>>
    /\ hists = <<>>
    /\ err_hist = NoHist
    /\ eff_hists = <<>>
    /\ df_ref = NoFrame
    /\ df_idx = NoFrame
    /\ df_eff = NoFrame
    /\ raised = ""
    /\ call = NoCall
    /\ ret = <<>>
    /\ files \in SeqsUpTo(FileContents, MaxFiles)
    /\ log = <<>>
    /\ ncalls = 0

\* create_histograms on the files of the sample; the counts are handed to
\* print_cut_summary at the end (line 469)
CreateHistogramsFromFiles ==
    /\ pc = "loop"
    /\ \E bin_vars \in {<<"P">>, <<"P", "nTracks">>}, pid_cuts \in LoopPidCuts,
          cuts \in LoopCuts, hardcoded \in LoopCuts :
       \E r \in {create_histograms(binnings, files,
                                   [particle |-> <<"K">>, bin_vars |-> bin_vars,
                                    pid_cuts |-> pid_cuts, cuts |-> cuts,
                                    hardcoded |-> hardcoded])} :
          /\ call' = [call EXCEPT !.op = "create_histograms", !.particle = <<"K">>,
                                  !.bin_vars = bin_vars, !.pid_cuts = pid_cuts,
                                  !.cuts = cuts, !.hardcoded = hardcoded]
          /\ raised' = r.raised
          /\ ret' = IF r.raised = "" THEN r.all_hists ELSE <<>>
          /\ log' = IF r.raised = "" THEN <<[cut_stats |-> r.cut_stats]>> ELSE <<>>
    /\ pc' = "histograms"
    /\ UNCHANGED <<binnings, df_cal, hists, err_hist, eff_hists, df_ref, df_idx, df_eff,
                   files, ncalls>>

\* add_hists(list(all_hists.values())), the list taken in any order
AddHists ==
    /\ pc = "histograms" /\ raised = ""
    /\ \E order \in Permutations(1..Len(ret)) :
       \E r \in {add_hists([i \in 1..Len(ret) |-> ret[order[i]].hists])} :
          /\ call' = [call EXCEPT !.op = "add_hists", !.order = order,
                                  !.path = [i \in 1..Len(ret) |-> ret[order[i]]]]
          /\ raised' = r.raised
          /\ hists' = IF r.raised = "" THEN Head(r.all_hists) ELSE <<>>
          /\ ret' = [i \in 1..Len(ret) |->
                       [path |-> ret[order[i]].path, hists |-> r.all_hists[i]]]
    /\ pc' = "added"
    /\ UNCHANGED <<binnings, df_cal, err_hist, eff_hists, df_ref, df_idx, df_eff,
                   files, log, ncalls>>

NextLoop == CreateHistogramsFromFiles \/ AddHists \/ CreateEffHistograms

SpecLoop == InitLoop /\ [][NextLoop]_vars

----------------------------------------------------------------------------
(* Properties of the file-loop run *)

\* the list handed to add_hists, as it was before the call
AddHistsInput == [i \in 1..Len(call.path) |-> call.path[i].hists]

Permuted(list, q) == [i \in 1..Len(list) |-> list[q[i]]]

C23_EffIdempotent ==
    [][(pc = "eff_merged" /\ pc' = "eff_again") =>
          /\ DOMAIN hists' = DOMAIN hists
          /\ \A name \in DOMAIN hists : name[1] = "eff" => hists'[name] = hists[name]]_vars

\* after the second call an efficiency histogram has an undefined cell and
\* a cell with efficiency two thirds
C23_Witness ==
    /\ pc = "eff_again"
    /\ \E name \in DOMAIN hists :
          /\ name[1] = "eff"
          /\ \E c1, c2 \in InRangeCoords(hists[name].axes) :
                /\ hists[name].cells[c1] = NaN
                /\ hists[name].cells[c2] = Fin(2, 3)

\* the step of create_eff_histograms on the merged dictionary
EffStep == pc \in {"added", "eff_merged"} /\ pc' \in {"eff_merged", "eff_again"}

\* the step of add_hists that returns
AddHistsStep == pc = "histograms" /\ pc' = "added" /\ raised' = ""

\* C26 as stated: create_eff_histograms only adds eff_<cut> entries and
\* leaves the cells of total, total_sumw2, passing_<cut> and
\* passing_sumw2_<cut> as they were, and add_hists leaves every histogram of
\* every dictionary of its list unchanged.
C26_Original ==
    [][/\ EffStep =>
            /\ DOMAIN hists \subseteq DOMAIN hists'
            /\ \A name \in DOMAIN hists' \ DOMAIN hists : name[1] = "eff"
            /\ \A name \in DOMAIN hists : name[1] # "eff" => hists'[name] = hists[name]
       /\ AddHistsStep =>
            \A i \in 1..Len(ret') : ret'[i] = call'.path[i]]_vars

\* C26: create_eff_histograms only adds eff_<cut> entries and leaves the
\* cells of total_sumw2, passing_<cut> and passing_sumw2_<cut> as they
\* were; of total it changes exactly the in-range cells equal to zero, which
\* become NaN. add_hists leaves every histogram of every dictionary of its
\* list but the first unchanged; the first dictionary is the one it returns.
C26_HistogramsChangedOnlyThere ==
    [][/\ EffStep =>
            /\ DOMAIN hists \subseteq DOMAIN hists'
            /\ \A name \in DOMAIN hists' \ DOMAIN hists : name[1] = "eff"
            /\ \A name \in DOMAIN hists :
                   name[1] \notin {"eff", "total"} => hists'[name] = hists[name]
            /\ hists'[<<"total">>].axes = hists[<<"total">>].axes
            /\ \A c \in DOMAIN hists[<<"total">>].cells :
                   hists'[<<"total">>].cells[c]
                     = IF c \in InRangeCoords(hists[<<"total">>].axes)
                             /\ IsZero(hists[<<"total">>].cells[c])
                       THEN NaN ELSE hists[<<"total">>].cells[c]
       /\ AddHistsStep =>
            /\ \A i \in 2..Len(ret') : ret'[i] = call'.path[i]
            /\ hists' = ret'[1].hists]_vars

\* two files were added and the efficiencies made: the first dictionary of
\* the list now differs from what it was, the second does not, and total has
\* a NaN cell where the sum was zero next to a filled cell
C26_Witness ==
    /\ pc = "eff_merged" /\ call.op = "add_hists"
    /\ Len(call.path) = 2
    /\ ret[2] = call.path[2]
    /\ call.path[1].hists[<<"total">>] # ret[1].hists[<<"total">>]
    /\ \E c1, c2 \in InRangeCoords(hists[<<"total">>].axes) :
          /\ hists[<<"total">>].cells[c1] = NaN
          /\ hists[<<"total">>].cells[c2] = FromInt(3)
          /\ call.path[1].hists[<<"total">>].cells[c1] = FromInt(0)
          /\ call.path[2].hists[<<"total">>].cells[c1] = FromInt(0)

\* C29: the binning range cuts of create_histograms keep an event exactly
\* when the histogram places it in an in-range cell on every axis (first
\* edge <= value < last edge): the number of events they keep is the number
\* of events inside the histogram range, and the underflow and overflow
\* cells of the total and passing histograms are empty.
C29_BinningRangeCutsMatchHistogram ==
    (pc = "histograms" /\ raised = "") =>
        /\ log[1].cut_stats["binning range"].after
              = SumSeq([i \in 1..Len(ret) |->
                          Cardinality({j \in 1..Len(files[ret[i].path].rows) :
                              RowInRange(ret[i].hists[<<"total">>].axes,
                                         files[ret[i].path].rows[j])})])
        /\ \A i \in 1..Len(ret) :
              \A name \in DOMAIN ret[i].hists :
                  \A c \in DOMAIN ret[i].hists[name].cells
                              \ InRangeCoords(ret[i].hists[name].axes) :
                      IsZero(ret[i].hists[name].cells[c])

\* the stages of apply_all_cuts that were applied in the call, in their order
AppliedStages ==
    <<"binning range">>
      \o (IF call.hardcoded.items # <<>> THEN <<"hard-coded">> ELSE <<>>)
      \o (IF ConfigCutsAfter(call.cuts, call.hardcoded) # <<>> THEN <<"user">> ELSE <<>>)

\* the number of events of all files read that pass every cut and the PID cut
EventsFilled(pid_cut) ==
    SumSeq([i \in 1..Len(ret) |->
              Cardinality({j \in 1..Len(files[ret[i].path].rows) :
                  LET r == files[ret[i].path].rows[j]
                  IN  /\ InBinningRangeCuts(
                             BinningRangeCuts(binnings, call.particle, call.bin_vars), r)
                      /\ KeepsAll(call.hardcoded.items, r)
                      /\ KeepsAll(ConfigCutsAfter(call.cuts, call.hardcoded), r)
                      /\ PassesCut(pid_cut, r)})])

\* C30 as stated: after the loop of create_histograms over the files, for
\* every stage of cut_stats 0 <= after <= before; the before of each applied
\* stage is the after of the stage applied before it, in the order binning
\* range, hard-coded, user, and a stage without cuts stays at 0/0; the before
\* of every PID cut is the after of the last applied stage, and its after is
\* the number of events filled into the passing histograms of that cut.
C30_Original ==
    (pc = "histograms" /\ raised = "") =>
        LET stats == log[1].cut_stats
            last  == stats[AppliedStages[Len(AppliedStages)]].after
        IN  /\ \A k \in DOMAIN stats : 0 <= stats[k].after /\ stats[k].after <= stats[k].before
            /\ \A i \in 2..Len(AppliedStages) :
                   stats[AppliedStages[i]].before = stats[AppliedStages[i - 1]].after
            /\ \A k \in {"hard-coded", "user"} \ SeqRange(AppliedStages) :
                   stats[k] = [before |-> 0, after |-> 0]
            /\ \A i \in 1..Len(call.pid_cuts) :
                   LET key == "'" \o call.pid_cuts[i] \o "'"
                   IN  key \in DOMAIN stats =>
                          /\ stats[key].before = last
                          /\ stats[key].after = EventsFilled(call.pid_cuts[i])

\* the number of times a PID cut occurs in the list of the call
Occurrences(pid_cut) ==
    Cardinality({i \in 1..Len(call.pid_cuts) : call.pid_cuts[i] = pid_cut})

\* C30: as stated for the stages; the before of every PID cut is the after
\* of the last applied stage, and its after the number of events filled into
\* the passing histograms of that cut, each multiplied by the number of times
\* the cut occurs in pid_cuts.
C30_CutStatsChain ==
    (pc = "histograms" /\ raised = "") =>
        LET stats == log[1].cut_stats
            last  == stats[AppliedStages[Len(AppliedStages)]].after
        IN  /\ \A k \in DOMAIN stats : 0 <= stats[k].after /\ stats[k].after <= stats[k].before
            /\ \A i \in 2..Len(AppliedStages) :
                   stats[AppliedStages[i]].before = stats[AppliedStages[i - 1]].after
            /\ \A k \in {"hard-coded", "user"} \ SeqRange(AppliedStages) :
                   stats[k] = [before |-> 0, after |-> 0]
            /\ \A i \in 1..Len(call.pid_cuts) :
                   LET key == "'" \o call.pid_cuts[i] \o "'"
                       n   == Occurrences(call.pid_cuts[i])
                   IN  key \in DOMAIN stats =>
                          /\ stats[key].before = n * last
                          /\ stats[key].after = n * EventsFilled(call.pid_cuts[i])

\* two files were read with hard-coded and user cuts and a PID cut given
\* twice: events were removed by the binning range and by the PID cut, and
\* the counts of the PID cut are twice those of the events
C30_Witness ==
    /\ pc = "histograms" /\ raised = "" /\ Len(ret) = 2
    /\ Len(AppliedStages) = 3
    /\ call.pid_cuts = <<"DLLK>4", "DLLK>4">>
    /\ LET stats == log[1].cut_stats
       IN  /\ stats["binning range"].after < stats["binning range"].before
           /\ stats["user"].after > 0
           /\ stats["'DLLK>4'"].before = 2 * stats["user"].after
           /\ stats["'DLLK>4'"].after = 2 * EventsFilled("DLLK>4")
           /\ 0 < stats["'DLLK>4'"].after
           /\ stats["'DLLK>4'"].after < stats["'DLLK>4'"].before

====
